---- MODULE Spec2Model ----
(***************************************************************************)
(* OmniSage: session controller (ChatSession), model pool (ModelManager)   *)
(* and context budgeter (_calculate_required_context).                     *)
(*                                                                         *)
(* Three specifications share the variables below:                         *)
(*   SpecBudget  the budgeter as a pure function over drawn inputs         *)
(*   SpecPool    concurrent callers of ModelManager.get_model              *)
(*   Spec        chat sessions running generate_response over the pool     *)
(***************************************************************************)
EXTENDS Integers, Sequences, FiniteSets, TLC

(* ---------------------------------------------------------------------- *)
(* Bounds                                                                  *)
(* ---------------------------------------------------------------------- *)
MaxGranule == 4        \* largest max_output_length drawn in SpecBudget
MaxWindow == 9         \* largest context_window drawn in SpecBudget
MaxEstimate == 11      \* largest prompt estimate drawn in SpecBudget
MaxRequest == 5        \* largest requested max_tokens drawn in SpecBudget

(* Optional[int]: None is the empty tuple, an integer n is <<n>>.          *)
NoTokens == << >>
SomeTokens(n) == << n >>

Min(a, b) == IF a <= b THEN a ELSE b
Max(a, b) == IF a >= b THEN a ELSE b

(* ---------------------------------------------------------------------- *)
(* ContextBudgeter: ChatSession._calculate_required_context                *)
(* ---------------------------------------------------------------------- *)

\* chat.py:103  output_tokens = max_tokens if max_tokens is not None else ...
RequestedOutput(max_tokens, config) ==
    IF max_tokens # NoTokens THEN max_tokens[1] ELSE config.max_output_length

\* chat.py:110-111  units_needed, context_size before the clamp
QuantizedContext(required_tokens, config) ==
    ((required_tokens + config.max_output_length - 1)
        \div config.max_output_length) * config.max_output_length

\* mutant: the clamp of chat.py:122 is dropped
ClampContextNoClamp(context_size, config) == context_size

\* mutant: the context wraps around the window instead of saturating at it
ClampContextWrap(context_size, config) ==
    IF context_size <= config.context_window
    THEN context_size
    ELSE context_size % config.context_window

\* chat.py:122  context_size = min(context_size, config.context_window)
ClampContext(context_size, config) == Min(context_size, config.context_window)

\* mutant: the shrunk output is not floored at zero
ShrinkOutputNoFloor(context_size, estimated_prompt_tokens) ==
    context_size - estimated_prompt_tokens

\* chat.py:127  output_tokens = max(0, context_size - estimated_prompt_tokens)
ShrinkOutput(context_size, estimated_prompt_tokens) ==
    Max(0, context_size - estimated_prompt_tokens)

\* chat.py:99-131 with estimated_prompt_tokens = len(formatted_prompt.split())
\* already taken; returns the tuple (context_size, output_tokens)
CalculateRequiredContext(estimated_prompt_tokens, max_tokens, config) ==
    LET output_tokens == RequestedOutput(max_tokens, config)
        required_tokens == estimated_prompt_tokens + output_tokens
        context_size == ClampContext(QuantizedContext(required_tokens, config), config)
    IN  IF context_size < required_tokens
        THEN [context_size |-> context_size,
              output_tokens |-> ShrinkOutput(context_size, estimated_prompt_tokens)]
        ELSE [context_size |-> context_size, output_tokens |-> output_tokens]

(* ---------------------------------------------------------------------- *)
(* Configuration (the registry the pool and the sessions read)             *)
(* ---------------------------------------------------------------------- *)
\* The two groups the session controller can select (chat.py:46) and the
\* group the pool preloads (manager.py:34)
Groups == { "default", "programming" }

\* A group name that is not configured
UnknownGroup == "unknown"

\* Text is a sequence of atoms: an atom is one whitespace character (" " or
\* "\n") or a run of characters without whitespace
\* model_config.py:5-11  the default template of ModelPromptFormat
DefaultPromptFormat ==
    [system_prefix |-> << >>, system_suffix |-> << >>,
     user_prefix |-> << "User:", " " >>, user_suffix |-> << >>,
     assistant_prefix |-> << "Assistant:", " " >>, assistant_suffix |-> << >>]

\* config_manager.py:25-30  the ChatML template of the first default model
ChatMLPromptFormat ==
    [system_prefix |-> << "<|im_start|>system", "\n" >>,
     system_suffix |-> << "<|im_end|>" >>,
     user_prefix |-> << "<|im_start|>user", "\n" >>,
     user_suffix |-> << "<|im_end|>" >>,
     assistant_prefix |-> << "<|im_start|>assistant", "\n" >>,
     assistant_suffix |-> << "<|im_end|>" >>]

\* Per group configuration; limits are small so that quantisation, clamp and
\* shrink all occur; "default" has no system prompt, "programming" has one
GroupConfig(group) ==
    IF group = "programming"
    THEN [max_output_length |-> 3, context_window |-> 7,
          system_prompt |-> << "Code", " ", "helper" >>,
          prompt_format |-> ChatMLPromptFormat]
    ELSE [max_output_length |-> 4, context_window |-> 8,
          system_prompt |-> << >>,
          prompt_format |-> DefaultPromptFormat]

\* manager.py:55-61  minimum max_output_length across all groups
_get_min_output_length ==
    CHOOSE m \in { GroupConfig(g).max_output_length : g \in Groups } :
        \A g \in Groups : m <= GroupConfig(g).max_output_length

(* ---------------------------------------------------------------------- *)
(* State                                                                   *)
(* ---------------------------------------------------------------------- *)
VARIABLES
    budgetIn,     \* SpecBudget: the drawn inputs of one budgeter experiment
    budgetOut,    \* SpecBudget: << >> before the call, <<r1, r2>> after it
    rendered,     \* SpecRender: << >>, or the last _format_prompt call and its result
    \* ModelManager
    models,       \* group -> 0 (None) or the identity of the loaded handle
    lockOwner,    \* group -> 0 (free) or the thread holding self._locks[group]
    n_ctx,        \* group -> the n_ctx attribute of the group's handle
    loadCalls,    \* group -> number of Llama.from_pretrained calls started
    loadFails,    \* group -> number of those calls that raised
    \* one thread per caller of the pool
    pc,           \* thread -> position in the code
    grp,          \* thread -> the group argument of its pool call
    got,          \* thread -> handle returned by its last get_model (0: none)
    err,          \* thread -> exception its last call raised ("none": none)
    ncalls,       \* number of calls started so far, all threads together
    \* ChatSession, one per thread (a request owns its session)
    sid,                  \* thread -> identity of the session it owns (0: none yet)
    chat_id,              \* thread -> self.chat_id (0: None)
    model_group,          \* thread -> self.model_group ("None": None)
    conversation_history, \* thread -> self.conversation_history
    classifyCalls,        \* thread -> calls of is_programming_question by the session
    adopted,              \* thread -> the session took its group from the stored log
    call,                 \* thread -> arguments and locals of its generate_response
    engineCall,           \* thread -> << >> or the arguments the engine was invoked with
    delivered,            \* thread -> fragments yielded to the caller (full_response)
    pulled,               \* thread -> the chunk texts the engine yielded in the current call
    nsessions,            \* number of sessions constructed so far
    \* DatabaseManager
    db,                   \* chat id -> the stored messages, in order
    \* the HTTP layer, one request at a time per thread
    request,              \* thread -> << >> or the /chat/stream request it serves
    wire,                 \* thread -> the lines the streaming response has sent
    client,               \* thread -> the state of LlamaChatClient.chat_stream
    \* the standalone console chat
    llama_chat            \* << >>, or the LlamaChat object and the position of its loop

poolVars == << models, lockOwner, n_ctx, loadCalls, loadFails >>
threadVars == << pc, grp, got, err, ncalls >>
apiVars == << request, wire, client >>
loopVars == << llama_chat >>
budgetVars == << budgetIn, budgetOut, rendered, apiVars, loopVars >>
sessVars == << sid, chat_id, model_group, conversation_history, classifyCalls,
              adopted, call, engineCall, delivered, pulled, nsessions, db >>
vars == << budgetIn, budgetOut, rendered, models, lockOwner, n_ctx, loadCalls, loadFails,
           pc, grp, got, err, ncalls,
           sid, chat_id, model_group, conversation_history, classifyCalls,
           adopted, call, engineCall, delivered, pulled, nsessions, db,
           request, wire, client, llama_chat >>

Threads == DOMAIN pc

\* only the specification of the HTTP layer has requests
NoRequests == request = << >> /\ wire = << >> /\ client = << >>

\* only the specification of the console chat has a LlamaChat object
NoLoop == llama_chat = << >>

\* the specifications of the pool alone and of the budgeter alone have no
\* chat session
NoSessions ==
    /\ sid = << >> /\ chat_id = << >> /\ model_group = << >>
    /\ conversation_history = << >> /\ classifyCalls = << >> /\ adopted = << >>
    /\ call = << >> /\ engineCall = << >> /\ delivered = << >> /\ pulled = << >>
    /\ nsessions = 0 /\ db = << >>

(* ---------------------------------------------------------------------- *)
(* ModelManager                                                            *)
(* ---------------------------------------------------------------------- *)

\* mutant: construction loads every configured group
InitModelManagerLoadsAll ==
    /\ models = [g \in Groups |-> 1]
    /\ loadFails = [g \in Groups |-> 0]
    /\ lockOwner = [g \in Groups |-> 0]
    /\ n_ctx = [g \in Groups |-> _get_min_output_length]
    /\ loadCalls = [g \in Groups |-> 1]

\* manager.py:9-22, 28-53  the pool after construction: every configured
\* group has an empty slot and a free lock, then "default" was preloaded
\* without the lock; a failed preload is swallowed
InitModelManager ==
    /\ \E preloaded \in BOOLEAN :
          /\ models = [g \in Groups |->
                          IF g = "default" /\ preloaded THEN 1 ELSE 0]
          /\ loadFails = [g \in Groups |->
                          IF g = "default" /\ ~preloaded THEN 1 ELSE 0]
    /\ lockOwner = [g \in Groups |-> 0]
    /\ n_ctx = [g \in Groups |-> _get_min_output_length]
    /\ loadCalls = [g \in Groups |-> IF g = "default" THEN 1 ELSE 0]

\* mutant: an unknown group is answered like an empty slot, with no error
EnsureInvalidGroupNoError(t) ==
    /\ pc[t] = "ensure"
    /\ grp[t] \notin Groups
    /\ pc' = [pc EXCEPT ![t] = "got_model"]
    /\ UNCHANGED << poolVars, grp, got, err, ncalls, budgetVars, sessVars >>

\* manager.py:65-66  unknown group: ValueError, nothing else happens
EnsureInvalidGroup(t) ==
    /\ pc[t] = "ensure"
    /\ grp[t] \notin Groups
    /\ pc' = [pc EXCEPT ![t] = "pool_raised"]
    /\ err' = [err EXCEPT ![t] = "ValueError"]
    /\ UNCHANGED << poolVars, grp, got, ncalls, budgetVars, sessVars >>

\* manager.py:69  first check, made without the lock
EnsureCheck(t) ==
    /\ pc[t] = "ensure"
    /\ grp[t] \in Groups
    /\ pc' = [pc EXCEPT ![t] =
                IF models[grp[t]] = 0 THEN "acquire" ELSE "return"]
    /\ UNCHANGED << poolVars, grp, got, err, ncalls, budgetVars, sessVars >>

\* mutant: one lock for the whole pool instead of one per group
LockOfGlobal(group) == "default"

\* manager.py:19, 71  the lock that guards a group: self._locks[group]
LockOf(group) == group

\* manager.py:71  with self._locks[group]: blocks while another thread holds it
EnsureAcquire(t) ==
    /\ pc[t] = "acquire"
    /\ lockOwner[LockOf(grp[t])] = 0
    /\ lockOwner' = [lockOwner EXCEPT ![LockOf(grp[t])] = t]
    /\ pc' = [pc EXCEPT ![t] = "locked"]
    /\ UNCHANGED << models, n_ctx, loadCalls, loadFails, grp, got, err, ncalls, budgetVars, sessVars >>

\* mutant: the second check is dropped, the holder of the lock always loads
NeedsLoadUnderLockNoRecheck(group) == TRUE

\* manager.py:73  double-check after acquiring the lock
NeedsLoadUnderLock(group) == models[group] = 0

\* manager.py:73-80  under the lock: start the load, or leave the with block
EnsureDoubleCheck(t) ==
    /\ pc[t] = "locked"
    /\ IF NeedsLoadUnderLock(grp[t])
       THEN /\ pc' = [pc EXCEPT ![t] = "loading"]
            /\ loadCalls' = [loadCalls EXCEPT ![grp[t]] = @ + 1]
            /\ UNCHANGED lockOwner
       ELSE /\ pc' = [pc EXCEPT ![t] = "return"]
            /\ lockOwner' = [lockOwner EXCEPT ![LockOf(grp[t])] = 0]
            /\ UNCHANGED loadCalls
    /\ UNCHANGED << models, n_ctx, loadFails, grp, got, err, ncalls, budgetVars, sessVars >>

\* manager.py:80-87  Llama.from_pretrained returns: the slot takes the new
\* handle, created with n_ctx = the minimum output length
LoadSucceed(t) ==
    /\ pc[t] = "loading"
    /\ models' = [models EXCEPT ![grp[t]] = loadCalls[grp[t]]]
    /\ n_ctx' = [n_ctx EXCEPT ![grp[t]] = _get_min_output_length]
    /\ pc' = [pc EXCEPT ![t] = "release"]
    /\ UNCHANGED << lockOwner, loadCalls, loadFails, grp, got, err, ncalls, budgetVars, sessVars >>

\* manager.py:71  leaving the with block after a successful load
EnsureRelease(t) ==
    /\ pc[t] = "release"
    /\ lockOwner' = [lockOwner EXCEPT ![LockOf(grp[t])] = 0]
    /\ pc' = [pc EXCEPT ![t] = "return"]
    /\ UNCHANGED << models, n_ctx, loadCalls, loadFails, grp, got, err, ncalls, budgetVars, sessVars >>

\* mutant: the lock is taken and released by hand, and the release is skipped
\* when the load raises
LoadFailKeepsLock(t) ==
    /\ pc[t] = "loading"
    /\ loadFails' = [loadFails EXCEPT ![grp[t]] = @ + 1]
    /\ pc' = [pc EXCEPT ![t] = "pool_raised"]
    /\ err' = [err EXCEPT ![t] = "RuntimeError"]
    /\ UNCHANGED << models, lockOwner, n_ctx, loadCalls, grp, got, ncalls, budgetVars, sessVars >>

\* manager.py:88-92  Llama.from_pretrained raises: the with block releases
\* the lock, the error is re-raised as RuntimeError, the slot stays None
LoadFail(t) ==
    /\ pc[t] = "loading"
    /\ lockOwner' = [lockOwner EXCEPT ![LockOf(grp[t])] = 0]
    /\ loadFails' = [loadFails EXCEPT ![grp[t]] = @ + 1]
    /\ pc' = [pc EXCEPT ![t] = "pool_raised"]
    /\ err' = [err EXCEPT ![t] = "RuntimeError"]
    /\ UNCHANGED << models, n_ctx, loadCalls, grp, got, ncalls, budgetVars, sessVars >>

\* manager.py:97  return self.models[group]
GetModelReturn(t) ==
    /\ pc[t] = "return"
    /\ got' = [got EXCEPT ![t] = models[grp[t]]]
    /\ pc' = [pc EXCEPT ![t] = "got_model"]
    /\ UNCHANGED << poolVars, grp, err, ncalls, budgetVars, sessVars >>

\* manager.py:99-101  self.models.get(group) is not None
is_model_loaded(group) ==
    IF group \in DOMAIN models THEN models[group] # 0 ELSE FALSE

\* manager.py:63-97  one step of a thread inside get_model
GetModelStep(t) ==
    \/ EnsureInvalidGroup(t)
    \/ EnsureCheck(t)
    \/ EnsureAcquire(t)
    \/ EnsureDoubleCheck(t)
    \/ LoadSucceed(t)
    \/ EnsureRelease(t)
    \/ LoadFail(t)
    \/ GetModelReturn(t)

(* ---------------------------------------------------------------------- *)
(* SpecPool: NCallers threads call get_model directly                      *)
(* ---------------------------------------------------------------------- *)
NCallers == 3          \* concurrent callers of the pool
MaxPoolCalls == 4      \* get_model calls, all callers together

InitPool ==
    /\ InitModelManager
    /\ pc = [t \in 1..NCallers |-> "idle"]
    /\ grp = [t \in 1..NCallers |-> "default"]
    /\ got = [t \in 1..NCallers |-> 0]
    /\ err = [t \in 1..NCallers |-> "none"]
    /\ ncalls = 0
    /\ budgetIn = << >>
    /\ budgetOut = << >>
    /\ rendered = << >>
    /\ NoRequests
    /\ NoLoop
    /\ NoSessions

\* a caller enters get_model(group)
PoolCall(t, group) ==
    /\ pc[t] = "idle"
    /\ ncalls < MaxPoolCalls
    /\ ncalls' = ncalls + 1
    /\ grp' = [grp EXCEPT ![t] = group]
    /\ got' = [got EXCEPT ![t] = 0]
    /\ err' = [err EXCEPT ![t] = "none"]
    /\ pc' = [pc EXCEPT ![t] = "ensure"]
    /\ UNCHANGED << poolVars, budgetVars, sessVars >>

\* the caller has its handle, or its exception, and is free to call again
PoolCallEnd(t) ==
    /\ pc[t] \in { "got_model", "pool_raised" }
    /\ pc' = [pc EXCEPT ![t] = "idle"]
    /\ got' = [got EXCEPT ![t] = 0]
    /\ err' = [err EXCEPT ![t] = "none"]
    /\ grp' = [grp EXCEPT ![t] = "default"]
    /\ UNCHANGED << poolVars, ncalls, budgetVars, sessVars >>

NextPool ==
    \/ \E t \in Threads, group \in Groups \cup { UnknownGroup } : PoolCall(t, group)
    \/ \E t \in Threads : EnsureInvalidGroup(t)
    \/ \E t \in Threads : EnsureCheck(t)
    \/ \E t \in Threads : EnsureAcquire(t)
    \/ \E t \in Threads : EnsureDoubleCheck(t)
    \/ \E t \in Threads : LoadSucceed(t)
    \/ \E t \in Threads : EnsureRelease(t)
    \/ \E t \in Threads : LoadFail(t)
    \/ \E t \in Threads : GetModelReturn(t)
    \/ \E t \in Threads : PoolCallEnd(t)

SpecPool == InitPool /\ [][NextPool]_vars

(* ---------------------------------------------------------------------- *)
(* Text helpers (str.split, str.strip, str.join)                           *)
(* ---------------------------------------------------------------------- *)
IsSpace(c) == c \in { " ", "\n" }

\* chat.py:100  len(formatted_prompt.split()): the number of maximal runs of
\* atoms without whitespace
WordCount(text) ==
    Cardinality({ i \in 1..Len(text) :
                    ~ IsSpace(text[i]) /\ (i = 1 \/ IsSpace(text[i - 1])) })

\* chat.py:192, 219  str.strip(): drop leading and trailing whitespace
Strip(text) ==
    LET solid == { i \in 1..Len(text) : ~ IsSpace(text[i]) }
    IN  IF solid = { } THEN << >>
        ELSE LET first == CHOOSE i \in solid : \A j \in solid : i <= j
                 last == CHOOSE i \in solid : \A j \in solid : i >= j
             IN  SubSeq(text, first, last)

\* chat.py:90  "\n".join(formatted)
RECURSIVE JoinLines(_)
JoinLines(fragments) ==
    IF fragments = << >> THEN << >>
    ELSE IF Len(fragments) = 1 THEN fragments[1]
    ELSE fragments[1] \o << "\n" >> \o JoinLines(Tail(fragments))

\* chat.py:192  "".join(full_response)
RECURSIVE Concat(_)
Concat(fragments) ==
    IF fragments = << >> THEN << >> ELSE fragments[1] \o Concat(Tail(fragments))

(* ---------------------------------------------------------------------- *)
(* ChatSession                                                             *)
(* ---------------------------------------------------------------------- *)
NSessions == 2         \* threads, each serving requests with its own session
MaxSessions == 2       \* sessions constructed, all threads together
MaxCalls == 2          \* generate_response calls, all threads together
MaxChunks == 2         \* chunks the engine produces in one streaming call

ChatIds == { 1 }

\* the queries a caller sends
QueryProg == << "fix", " ", "this", " ", "bug" >>
QueryGen == << "hi" >>
Queries == { QueryProg, QueryGen }

\* the max_tokens a caller sends: None or a number; the request schema does
\* not validate it (schemas.py:64), so a negative number reaches the session
MaxTokensChoices == { NoTokens, SomeTokens(2), SomeTokens(-1) }

\* texts the engine returns in batch mode, fragments it yields when streaming
Responses == { << " ", "ok", "\n" >> }
Chunks == { << >>, << "ok" >>, << " ", "no" >> }

\* query_router.py:99-104  the classifier, a fixed function of the query
is_programming_question(query) == query = QueryProg

\* chat.py:37-51  returns the group and the number of classifier calls made
_select_model_group(mg, query) ==
    IF mg # "None"
    THEN [group |-> mg, classified |-> 0]
    ELSE [group |-> IF is_programming_question(query) THEN "programming" ELSE "default",
          classified |-> 1]

\* mutant: the group is selected again on every call
GenSelectAlways(mg, query) == _select_model_group("None", query)

\* mutant: the selected group is not stored in self.model_group
GenSelectNotStored(mg, query) ==
    [group |-> mg, classified |-> _select_model_group(mg, query).classified]

\* chat.py:143-144  if not self.model_group: self.model_group = select(prompt)
GenSelect(mg, query) ==
    IF mg = "None" THEN _select_model_group(mg, query)
    ELSE [group |-> mg, classified |-> 0]

\* chat.py:70-71  the same test at the head of _format_prompt
FormatSelect(mg, query) ==
    IF mg = "None" THEN _select_model_group(mg, query)
    ELSE [group |-> mg, classified |-> 0]

\* chat.py:81-85  one history entry rendered with the template of its role
RenderEntry(entry, pf) ==
    IF entry.role = "user"
    THEN pf.user_prefix \o entry.content \o pf.user_suffix
    ELSE pf.assistant_prefix \o entry.content \o pf.assistant_suffix

\* mutant: the template is chosen by the position of the turn, user first
RenderTurnByPosition(history, i, pf) ==
    RenderEntry([role |-> IF i % 2 = 1 THEN "user" ELSE "assistant",
                 content |-> history[i].content], pf)

\* chat.py:81-85  the loop over the history: turn i is rendered as its entry
RenderTurn(history, i, pf) == RenderEntry(history[i], pf)

\* mutant: the closing assistant cue carries the assistant suffix
ClosingCueSuffixed(pf) == pf.assistant_prefix \o pf.assistant_suffix

\* chat.py:88  formatted.append(f"{pf.assistant_prefix}")
ClosingCue(pf) == pf.assistant_prefix

\* chat.py:76-88  the list of fragments before the join
PromptFragments(history, user_input, config) ==
    LET pf == config.prompt_format
    IN  (IF config.system_prompt # << >>
         THEN << pf.system_prefix \o config.system_prompt \o pf.system_suffix >>
         ELSE << >>)
        \o [i \in 1..Len(history) |-> RenderTurn(history, i, pf)]
        \o << pf.user_prefix \o user_input \o pf.user_suffix >>
        \o << ClosingCue(pf) >>

\* chat.py:68-90  (the group is selected by FormatSelect before)
_format_prompt(history, user_input, config) ==
    JoinLines(PromptFragments(history, user_input, config))

\* mutant: the stored messages are read newest first
LoadedHistoryNewestFirst(messages) ==
    [i \in 1..Len(messages) |->
        [role |-> messages[Len(messages) + 1 - i].role,
         content |-> messages[Len(messages) + 1 - i].content]]

\* chat.py:53-58  the history rebuilt from the stored messages
LoadedHistory(messages) ==
    [i \in 1..Len(messages) |->
        [role |-> messages[i].role, content |-> messages[i].content]]

\* mutant: the group of the first assistant message that records one
LoadedGroupOldest(messages) ==
    LET withGroup == { i \in 1..Len(messages) :
                         messages[i].role = "assistant"
                         /\ messages[i].model_group # "None" }
    IN  IF withGroup = { } THEN "None"
        ELSE messages[CHOOSE i \in withGroup : \A j \in withGroup : i <= j].model_group

\* chat.py:60-66  the group of the last assistant message that records one
LoadedGroup(messages) ==
    LET withGroup == { i \in 1..Len(messages) :
                         messages[i].role = "assistant"
                         /\ messages[i].model_group # "None" }
    IN  IF withGroup = { } THEN "None"
        ELSE messages[CHOOSE i \in withGroup : \A j \in withGroup : i >= j].model_group

IdleCall ==
    [prompt |-> << >>, max_tokens |-> NoTokens, stream |-> FALSE,
     formatted |-> << >>, context_size |-> 0, output_tokens |-> 0]

InitSessions ==
    /\ InitModelManager
    /\ pc = [t \in 1..NSessions |-> "new"]
    /\ grp = [t \in 1..NSessions |-> "default"]
    /\ got = [t \in 1..NSessions |-> 0]
    /\ err = [t \in 1..NSessions |-> "none"]
    /\ ncalls = 0
    /\ sid = [t \in 1..NSessions |-> 0]
    /\ chat_id = [t \in 1..NSessions |-> 0]
    /\ model_group = [t \in 1..NSessions |-> "None"]
    /\ conversation_history = [t \in 1..NSessions |-> << >>]
    /\ classifyCalls = [t \in 1..NSessions |-> 0]
    /\ adopted = [t \in 1..NSessions |-> FALSE]
    /\ call = [t \in 1..NSessions |-> IdleCall]
    /\ engineCall = [t \in 1..NSessions |-> << >>]
    /\ delivered = [t \in 1..NSessions |-> << >>]
    /\ pulled = [t \in 1..NSessions |-> << >>]
    /\ nsessions = 0
    /\ db = [c \in ChatIds |-> << >>]
    /\ budgetIn = << >>
    /\ budgetOut = << >>
    /\ rendered = << >>
    /\ NoRequests
    /\ NoLoop

\* chat.py:9-35  ChatSession(model_manager, db_manager, chat_id): a thread
\* drops the session of its last request and constructs one for the next
NewSession(t, c) ==
    /\ pc[t] \in { "new", "ready" }
    /\ nsessions < MaxSessions
    /\ nsessions' = nsessions + 1
    /\ sid' = [sid EXCEPT ![t] = nsessions + 1]
    /\ chat_id' = [chat_id EXCEPT ![t] = c]
    /\ conversation_history' = [conversation_history EXCEPT ![t] =
            IF c # 0 THEN LoadedHistory(db[c]) ELSE << >>]
    /\ model_group' = [model_group EXCEPT ![t] =
            IF c # 0 THEN LoadedGroup(db[c]) ELSE "None"]
    /\ adopted' = [adopted EXCEPT ![t] = c # 0 /\ LoadedGroup(db[c]) # "None"]
    /\ classifyCalls' = [classifyCalls EXCEPT ![t] = 0]
    /\ call' = [call EXCEPT ![t] = IdleCall]
    /\ engineCall' = [engineCall EXCEPT ![t] = << >>]
    /\ delivered' = [delivered EXCEPT ![t] = << >>]
    /\ pulled' = [pulled EXCEPT ![t] = << >>]
    /\ err' = [err EXCEPT ![t] = "none"]
    /\ got' = [got EXCEPT ![t] = 0]
    /\ pc' = [pc EXCEPT ![t] = "ready"]
    /\ UNCHANGED << poolVars, grp, ncalls, db, budgetVars >>

\* chat.py:141-153  generate_response up to the budget: select the group,
\* render the prompt, size the context; then get_model is entered (159)
GenPrepare(t, query, max_tokens, stream) ==
    /\ pc[t] = "ready"
    /\ ncalls < MaxCalls
    /\ LET s1 == GenSelect(model_group[t], query)
           s2 == FormatSelect(s1.group, query)
           config == GroupConfig(s2.group)
           formatted == _format_prompt(conversation_history[t], query, config)
           budget == CalculateRequiredContext(WordCount(formatted), max_tokens, config)
       IN  /\ model_group' = [model_group EXCEPT ![t] = s2.group]
           /\ classifyCalls' = [classifyCalls EXCEPT ![t] =
                                   @ + s1.classified + s2.classified]
           /\ call' = [call EXCEPT ![t] =
                 [prompt |-> query, max_tokens |-> max_tokens, stream |-> stream,
                  formatted |-> formatted, context_size |-> budget.context_size,
                  output_tokens |-> budget.output_tokens]]
           /\ grp' = [grp EXCEPT ![t] = s2.group]
    /\ ncalls' = ncalls + 1
    /\ engineCall' = [engineCall EXCEPT ![t] = << >>]
    /\ delivered' = [delivered EXCEPT ![t] = << >>]
    /\ pulled' = [pulled EXCEPT ![t] = << >>]
    /\ err' = [err EXCEPT ![t] = "none"]
    /\ got' = [got EXCEPT ![t] = 0]
    /\ pc' = [pc EXCEPT ![t] = "ensure"]
    /\ UNCHANGED << poolVars, sid, chat_id, conversation_history, adopted,
                    nsessions, db, budgetVars >>

\* the call is over: its locals are dropped and the thread is ready again
EndCall(t) ==
    /\ pc' = [pc EXCEPT ![t] = "ready"]
    /\ call' = [call EXCEPT ![t] = IdleCall]
    /\ engineCall' = [engineCall EXCEPT ![t] = << >>]
    /\ delivered' = [delivered EXCEPT ![t] = << >>]
    /\ pulled' = [pulled EXCEPT ![t] = << >>]
    /\ got' = [got EXCEPT ![t] = 0]
    /\ grp' = [grp EXCEPT ![t] = "default"]

\* mutant: a call that fails in get_model gives up the group it selected
GenPoolRaisedForgetsGroup(t) ==
    /\ pc[t] = "pool_raised"
    /\ sid[t] # 0
    /\ model_group' = [model_group EXCEPT ![t] = "None"]
    /\ EndCall(t)
    /\ UNCHANGED << poolVars, err, ncalls, sid, chat_id,
                    conversation_history, classifyCalls, adopted, nsessions, db,
                    budgetVars >>

\* chat.py:159, 238-241  get_model raised: the exception leaves generate_response
GenPoolRaised(t) ==
    /\ pc[t] = "pool_raised"
    /\ sid[t] # 0
    /\ EndCall(t)
    /\ UNCHANGED << poolVars, err, ncalls, sid, chat_id, model_group,
                    conversation_history, classifyCalls, adopted, nsessions, db,
                    budgetVars >>

\* where generate_response goes after the context size was handled
AfterSetContext(t) == IF call[t].stream THEN "stream_ready" ELSE "invoke"

\* mutant: the handle is given the whole context window of the group
GenSetContextWindow(t) ==
    /\ pc[t] = "got_model"
    /\ sid[t] # 0
    /\ n_ctx' = [n_ctx EXCEPT ![grp[t]] = GroupConfig(grp[t]).context_window]
    /\ pc' = [pc EXCEPT ![t] = AfterSetContext(t)]
    /\ UNCHANGED << models, lockOwner, loadCalls, loadFails, grp, got, err, ncalls,
                    sessVars, budgetVars >>

\* mutant: a streaming call starts the engine as soon as the size is written
GenSetContextInvokes(t) ==
    /\ pc[t] = "got_model"
    /\ sid[t] # 0
    /\ n_ctx' = [n_ctx EXCEPT ![grp[t]] = call[t].context_size]
    /\ engineCall' = [engineCall EXCEPT ![t] =
            << [prompt |-> call[t].formatted, max_tokens |-> call[t].max_tokens,
                group |-> grp[t], handle |-> got[t],
                n_ctx |-> call[t].context_size] >>]
    /\ pc' = [pc EXCEPT ![t] = AfterSetContext(t)]
    /\ UNCHANGED << models, lockOwner, loadCalls, loadFails, grp, got, err, ncalls,
                    sid, chat_id, model_group, conversation_history, classifyCalls,
                    adopted, call, delivered, pulled, nsessions, db, budgetVars >>

\* chat.py:165  model.n_ctx = required_ctx, with no lock held
GenSetContext(t) ==
    /\ pc[t] = "got_model"
    /\ sid[t] # 0
    /\ n_ctx' = [n_ctx EXCEPT ![grp[t]] = call[t].context_size]
    /\ pc' = [pc EXCEPT ![t] = AfterSetContext(t)]
    /\ UNCHANGED << models, lockOwner, loadCalls, loadFails, grp, got, err, ncalls,
                    sessVars, budgetVars >>

\* mutant: the exception of the assignment ends the call
GenSetContextFailsRaises(t) ==
    /\ pc[t] = "got_model"
    /\ sid[t] # 0
    /\ err' = [err EXCEPT ![t] = "GenerationError"]
    /\ pc' = [pc EXCEPT ![t] = "ready"]
    /\ UNCHANGED << poolVars, grp, got, ncalls, sessVars, budgetVars >>

\* chat.py:162-168  the assignment raises: the exception is swallowed
GenSetContextFails(t) ==
    /\ pc[t] = "got_model"
    /\ sid[t] # 0
    /\ pc' = [pc EXCEPT ![t] = AfterSetContext(t)]
    /\ UNCHANGED << poolVars, grp, got, err, ncalls, sessVars, budgetVars >>

\* the cap the budgeter computed for the call (chat.py:153, printed at 171)
EngineCapBudgeted(c) == SomeTokens(c.output_tokens)

\* chat.py:179, 214  max_tokens=max_tokens: the cap handed to the engine
EngineCap(c) == c.max_tokens

\* chat.py:177-183, 212-218  the arguments of model(...), and the context size
\* the handle has when the engine starts
EngineArguments(t) ==
    [prompt |-> call[t].formatted, max_tokens |-> EngineCap(call[t]),
     group |-> grp[t], handle |-> got[t], n_ctx |-> n_ctx[grp[t]]]

\* chat.py:212-218  batch mode: the engine is invoked
GenInvoke(t) ==
    /\ pc[t] = "invoke"
    /\ engineCall' = [engineCall EXCEPT ![t] = << EngineArguments(t) >>]
    /\ pc' = [pc EXCEPT ![t] = "generating"]
    /\ UNCHANGED << poolVars, grp, got, err, ncalls, sid, chat_id, model_group,
                    conversation_history, classifyCalls, adopted, call, delivered,
                    pulled, nsessions, db, budgetVars >>

\* mutant: the user turn of the exchange is stored along with the answer
SavedMessageWithUserTurn(log, role, content, group) ==
    log \o << [role |-> "user", content |-> content, model_group |-> "None"],
              [role |-> role, content |-> content, model_group |-> group] >>

\* database/manager.py:51-66  save_message appends one row to the chat
SavedMessage(log, role, content, group) ==
    Append(log, [role |-> role, content |-> content, model_group |-> group])

\* mutant: only the assistant turn is appended
ExtendedHistoryAssistantOnly(history, prompt, complete_response) ==
    Append(history, [role |-> "assistant", content |-> complete_response])

\* chat.py:201-204, 231-234  conversation_history.extend([{user}, {assistant}])
ExtendedHistory(history, prompt, complete_response) ==
    history \o << [role |-> "user", content |-> prompt],
                  [role |-> "assistant", content |-> complete_response] >>

\* chat.py:219-236  batch mode: the engine returned text; the assistant
\* message is saved if there is a chat id, then the history is extended
GenBatchComplete(t, text) ==
    /\ pc[t] = "generating"
    /\ LET complete_response == Strip(text)
       IN  /\ db' = IF chat_id[t] # 0
                    THEN [db EXCEPT ![chat_id[t]] =
                            SavedMessage(@, "assistant", complete_response, model_group[t])]
                    ELSE db
           /\ conversation_history' = [conversation_history EXCEPT ![t] =
                    ExtendedHistory(@, call[t].prompt, complete_response)]
    /\ EndCall(t)
    /\ UNCHANGED << poolVars, err, ncalls, sid, chat_id, model_group, classifyCalls,
                    adopted, nsessions, budgetVars >>

\* chat.py:221-228, 238-241  batch mode: save_message raises after the engine
\* returned; the history is not extended
GenBatchSaveFail(t) ==
    /\ pc[t] = "generating"
    /\ chat_id[t] # 0
    /\ err' = [err EXCEPT ![t] = "StorageError"]
    /\ EndCall(t)
    /\ UNCHANGED << poolVars, ncalls, sid, chat_id, model_group, conversation_history,
                    classifyCalls, adopted, nsessions, db, budgetVars >>

\* chat.py:212-218, 238-241  batch mode: the engine raises
GenBatchRaise(t) ==
    /\ pc[t] = "generating"
    /\ err' = [err EXCEPT ![t] = "GenerationError"]
    /\ EndCall(t)
    /\ UNCHANGED << poolVars, ncalls, sid, chat_id, model_group, conversation_history,
                    classifyCalls, adopted, nsessions, db, budgetVars >>

\* mutant: starting the engine puts the handle back to its loaded size
StreamInvokeResets(t) ==
    /\ pc[t] = "stream_ready"
    /\ engineCall' = [engineCall EXCEPT ![t] = << EngineArguments(t) >>]
    /\ n_ctx' = [n_ctx EXCEPT ![grp[t]] = _get_min_output_length]
    /\ pc' = [pc EXCEPT ![t] = "streaming"]
    /\ UNCHANGED << models, lockOwner, loadCalls, loadFails, grp, got, err, ncalls,
                    sid, chat_id, model_group, conversation_history, classifyCalls,
                    adopted, call, delivered, pulled, nsessions, db, budgetVars >>

\* chat.py:174-183  streaming: the caller pulls for the first time, the body
\* of chunk_generator starts and invokes the engine
StreamInvoke(t) ==
    /\ pc[t] = "stream_ready"
    /\ engineCall' = [engineCall EXCEPT ![t] = << EngineArguments(t) >>]
    /\ pc' = [pc EXCEPT ![t] = "streaming"]
    /\ UNCHANGED << poolVars, grp, got, err, ncalls, sid, chat_id, model_group,
                    conversation_history, classifyCalls, adopted, call, delivered,
                    pulled, nsessions, db, budgetVars >>

\* mutant: the turn is put into the history as soon as a chunk is delivered
StreamChunkCommits(t, chunk_text) ==
    /\ pc[t] = "streaming"
    /\ Len(pulled[t]) < MaxChunks
    /\ pulled' = [pulled EXCEPT ![t] = Append(@, chunk_text)]
    /\ delivered' = [delivered EXCEPT ![t] =
            IF chunk_text # << >> THEN Append(@, chunk_text) ELSE @]
    /\ conversation_history' = [conversation_history EXCEPT ![t] =
            IF chunk_text # << >>
            THEN ExtendedHistory(@, call[t].prompt, chunk_text) ELSE @]
    /\ UNCHANGED << poolVars, pc, grp, got, err, ncalls, sid, chat_id, model_group,
                    classifyCalls, adopted, call, engineCall, nsessions, db,
                    budgetVars >>

\* mutant: an empty chunk is delivered like any other
StreamChunkKeepsEmpty(t, chunk_text) ==
    /\ pc[t] = "streaming"
    /\ Len(pulled[t]) < MaxChunks
    /\ pulled' = [pulled EXCEPT ![t] = Append(@, chunk_text)]
    /\ delivered' = [delivered EXCEPT ![t] = Append(@, chunk_text)]
    /\ UNCHANGED << poolVars, pc, grp, got, err, ncalls, sid, chat_id, model_group,
                    conversation_history, classifyCalls, adopted, call, engineCall,
                    nsessions, db, budgetVars >>

\* chat.py:184-188  the engine yields a chunk; a chunk with text is appended
\* to full_response and yielded to the caller, an empty one is skipped
StreamChunk(t, chunk_text) ==
    /\ pc[t] = "streaming"
    /\ Len(pulled[t]) < MaxChunks
    /\ pulled' = [pulled EXCEPT ![t] = Append(@, chunk_text)]
    /\ delivered' = [delivered EXCEPT ![t] =
            IF chunk_text # << >> THEN Append(@, chunk_text) ELSE @]
    /\ UNCHANGED << poolVars, pc, grp, got, err, ncalls, sid, chat_id, model_group,
                    conversation_history, classifyCalls, adopted, call, engineCall,
                    nsessions, db, budgetVars >>

\* chat.py:190-204  the engine's sequence is exhausted: with a chat id, the
\* assistant message is saved and the history extended; without, nothing
StreamExhaust(t) ==
    /\ pc[t] = "streaming"
    /\ LET complete_response == Strip(Concat(delivered[t]))
       IN  IF chat_id[t] # 0
           THEN /\ db' = [db EXCEPT ![chat_id[t]] =
                            SavedMessage(@, "assistant", complete_response, model_group[t])]
                /\ conversation_history' = [conversation_history EXCEPT ![t] =
                            ExtendedHistory(@, call[t].prompt, complete_response)]
           ELSE UNCHANGED << db, conversation_history >>
    /\ EndCall(t)
    /\ UNCHANGED << poolVars, err, ncalls, sid, chat_id, model_group, classifyCalls,
                    adopted, nsessions, budgetVars >>

\* chat.py:191-198, 205-208  streaming: save_message raises after exhaustion
StreamSaveFail(t) ==
    /\ pc[t] = "streaming"
    /\ chat_id[t] # 0
    /\ err' = [err EXCEPT ![t] = "StorageError"]
    /\ EndCall(t)
    /\ UNCHANGED << poolVars, ncalls, sid, chat_id, model_group, conversation_history,
                    classifyCalls, adopted, nsessions, db, budgetVars >>

\* mutant: the fragments delivered before the error are kept as a turn
StreamRaiseKeepsPartial(t) ==
    /\ pc[t] = "streaming"
    /\ err' = [err EXCEPT ![t] = "GenerationError"]
    /\ conversation_history' = [conversation_history EXCEPT ![t] =
            ExtendedHistory(@, call[t].prompt, Strip(Concat(delivered[t])))]
    /\ EndCall(t)
    /\ UNCHANGED << poolVars, ncalls, sid, chat_id, model_group,
                    classifyCalls, adopted, nsessions, db, budgetVars >>

\* chat.py:177-183, 205-208  streaming: the engine raises instead of yielding
StreamRaise(t) ==
    /\ pc[t] = "streaming"
    /\ err' = [err EXCEPT ![t] = "GenerationError"]
    /\ EndCall(t)
    /\ UNCHANGED << poolVars, ncalls, sid, chat_id, model_group, conversation_history,
                    classifyCalls, adopted, nsessions, db, budgetVars >>

\* mutant: dropping the generator also drops the handle of the group
StreamAbandonUnloads(t) ==
    /\ pc[t] \in { "stream_ready", "streaming" }
    /\ err' = [err EXCEPT ![t] = "abandoned"]
    /\ models' = [models EXCEPT ![grp[t]] = 0]
    /\ EndCall(t)
    /\ UNCHANGED << lockOwner, n_ctx, loadCalls, loadFails, ncalls, sid, chat_id,
                    model_group, conversation_history, classifyCalls, adopted,
                    nsessions, db, budgetVars >>

\* chat.py:174-210  the consumer stops pulling and drops the generator (it is
\* closed at the yield, or was never started); err records the abandonment
StreamAbandon(t) ==
    /\ pc[t] \in { "stream_ready", "streaming" }
    /\ err' = [err EXCEPT ![t] = "abandoned"]
    /\ EndCall(t)
    /\ UNCHANGED << poolVars, ncalls, sid, chat_id, model_group, conversation_history,
                    classifyCalls, adopted, nsessions, db, budgetVars >>

\* A session only asks the pool for "default" or "programming" (chat.py:46),
\* so the ValueError branch of ensure_model_loaded is not part of Next
Next ==
    \/ \E t \in Threads, c \in ChatIds \cup { 0 } : NewSession(t, c)
    \/ \E t \in Threads, query \in Queries, max_tokens \in MaxTokensChoices,
          stream \in BOOLEAN : GenPrepare(t, query, max_tokens, stream)
    \/ \E t \in Threads : EnsureCheck(t)
    \/ \E t \in Threads : EnsureAcquire(t)
    \/ \E t \in Threads : EnsureDoubleCheck(t)
    \/ \E t \in Threads : LoadSucceed(t)
    \/ \E t \in Threads : EnsureRelease(t)
    \/ \E t \in Threads : LoadFail(t)
    \/ \E t \in Threads : GetModelReturn(t)
    \/ \E t \in Threads : GenPoolRaised(t)
    \/ \E t \in Threads : GenSetContext(t)
    \/ \E t \in Threads : GenSetContextFails(t)
    \/ \E t \in Threads : GenInvoke(t)
    \/ \E t \in Threads, text \in Responses : GenBatchComplete(t, text)
    \/ \E t \in Threads : GenBatchSaveFail(t)
    \/ \E t \in Threads : GenBatchRaise(t)
    \/ \E t \in Threads : StreamInvoke(t)
    \/ \E t \in Threads, chunk_text \in Chunks : StreamChunk(t, chunk_text)
    \/ \E t \in Threads : StreamExhaust(t)
    \/ \E t \in Threads : StreamSaveFail(t)
    \/ \E t \in Threads : StreamRaise(t)
    \/ \E t \in Threads : StreamAbandon(t)

Spec == InitSessions /\ [][Next]_vars

(* ---------------------------------------------------------------------- *)
(* SpecBudget                                                              *)
(* ---------------------------------------------------------------------- *)
\* The scenario of the specification: granule 100, window 300
ScenarioConfig == [max_output_length |-> 100, context_window |-> 300]

BudgetConfigs ==
    { [max_output_length |-> m, context_window |-> c] :
        m \in 1..MaxGranule, c \in 1..MaxWindow } \cup { ScenarioConfig }

BudgetEstimates == (0..MaxEstimate) \cup { 250, 301 }

\* max_tokens is Optional[int] with no validation (schemas.py:64): None,
\* negative, zero and positive values all reach the budgeter
BudgetRequests ==
    { NoTokens } \cup { SomeTokens(n) : n \in (-1..MaxRequest) \cup { 100 } }

InitBudget ==
    /\ budgetIn \in [config : BudgetConfigs, max_tokens : BudgetRequests,
                     e1 : BudgetEstimates, e2 : BudgetEstimates]
    /\ budgetOut = << >>
    /\ rendered = << >>
    /\ NoRequests
    /\ NoLoop
    /\ InitModelManager
    /\ pc = << >> /\ grp = << >> /\ got = << >> /\ err = << >> /\ ncalls = 0
    /\ NoSessions

\* Two calls of the budgeter that differ only in the prompt estimate
BudgetCompute ==
    /\ budgetOut = << >>
    /\ budgetOut' =
         << CalculateRequiredContext(budgetIn.e1, budgetIn.max_tokens, budgetIn.config),
            CalculateRequiredContext(budgetIn.e2, budgetIn.max_tokens, budgetIn.config) >>
    /\ UNCHANGED << llama_chat, budgetIn, rendered, apiVars, poolVars, threadVars, sessVars >>

NextBudget == BudgetCompute

SpecBudget == InitBudget /\ [][NextBudget]_vars

(* ---------------------------------------------------------------------- *)
(* SpecRender                                                              *)
(* ---------------------------------------------------------------------- *)
MaxTurns == 4          \* longest history drawn in SpecRender

RenderContents == { << "a" >>, << "b", " ", "c" >> }

\* chat.py:56-58, routes/chat.py:45-51  a history entry is a dict with the
\* single key "user" or "assistant"; the store and the route admit the two
\* roles in any order
RenderTurns == [role : { "user", "assistant" }, content : RenderContents]

RenderHistories == UNION { [1..n -> RenderTurns] : n \in 0..MaxTurns }

\* One session with a drawn history, with or without a group
InitRender ==
    /\ InitModelManager
    /\ pc = << "ready" >> /\ grp = << "default" >> /\ got = << 0 >>
    /\ err = << "none" >> /\ ncalls = 0
    /\ sid = << 1 >> /\ chat_id = << 0 >> /\ nsessions = 1
    /\ model_group \in [{ 1 } -> { "None" } \cup Groups]
    /\ conversation_history \in [{ 1 } -> RenderHistories]
    /\ classifyCalls = << 0 >> /\ adopted = << FALSE >>
    /\ call = << IdleCall >> /\ engineCall = << << >> >>
    /\ delivered = << << >> >> /\ pulled = << << >> >>
    /\ db = [c \in ChatIds |-> << >>]
    /\ budgetIn = << >> /\ budgetOut = << >> /\ rendered = << >>
    /\ NoRequests
    /\ NoLoop

\* chat.py:68-90  _format_prompt(user_input): selects the group if there is
\* none, renders the prompt; rendered records the call and what it returned
FormatPrompt(t, user_input) ==
    /\ pc[t] = "ready"
    /\ LET s == FormatSelect(model_group[t], user_input)
           config == GroupConfig(s.group)
       IN  /\ model_group' = [model_group EXCEPT ![t] = s.group]
           /\ classifyCalls' = [classifyCalls EXCEPT ![t] = @ + s.classified]
           /\ rendered' =
                 [user_input |-> user_input,
                  history |-> conversation_history[t],
                  config |-> config,
                  fragments |-> PromptFragments(conversation_history[t], user_input, config),
                  prompt |-> _format_prompt(conversation_history[t], user_input, config)]
    /\ UNCHANGED << llama_chat, budgetIn, budgetOut, apiVars, poolVars, threadVars, sid, chat_id,
                    conversation_history, adopted, call, engineCall, delivered,
                    pulled, nsessions, db >>

NextRender == \E t \in Threads, user_input \in Queries : FormatPrompt(t, user_input)

SpecRender == InitRender /\ [][NextRender]_vars

(* ---------------------------------------------------------------------- *)
(* SpecLoad                                                                *)
(* ---------------------------------------------------------------------- *)
MaxRows == 3           \* longest stored log drawn in SpecLoad

\* database/manager.py:26-36  a stored message: role is "user" or
\* "assistant" (CHECK valid_role), model_group may be NULL; the route stores
\* user rows without a group (routes/chat.py:60)
StoredRows ==
    { [role |-> "user", content |-> << "hi" >>, model_group |-> "None"] }
    \cup [role : { "assistant" }, content : { << "hello" >>, << "ok" >> },
          model_group : { "None" } \cup Groups]

StoredLogs == UNION { [1..n -> StoredRows] : n \in 0..MaxRows }

\* A store with a drawn log, and a thread that has no session yet
InitLoad ==
    /\ InitModelManager
    /\ pc = << "new" >> /\ grp = << "default" >> /\ got = << 0 >>
    /\ err = << "none" >> /\ ncalls = 0
    /\ sid = << 0 >> /\ chat_id = << 0 >> /\ nsessions = 0
    /\ model_group = << "None" >> /\ conversation_history = << << >> >>
    /\ classifyCalls = << 0 >> /\ adopted = << FALSE >>
    /\ call = << IdleCall >> /\ engineCall = << << >> >>
    /\ delivered = << << >> >> /\ pulled = << << >> >>
    /\ db \in [ChatIds -> StoredLogs]
    /\ budgetIn = << >> /\ budgetOut = << >> /\ rendered = << >>
    /\ NoRequests
    /\ NoLoop

\* A session is constructed for the stored chat (or for none), then
\* generate_response is entered
NextLoad ==
    \/ \E t \in Threads, c \in ChatIds \cup { 0 } : NewSession(t, c)
    \/ \E t \in Threads, query \in Queries, max_tokens \in MaxTokensChoices,
          stream \in BOOLEAN : GenPrepare(t, query, max_tokens, stream)

SpecLoad == InitLoad /\ [][NextLoad]_vars

(* ---------------------------------------------------------------------- *)
(* SpecApi: the /chat/stream route, its streaming response and the client  *)
(* ---------------------------------------------------------------------- *)
\* bounds of the HTTP-layer specification
NClients == 1
MaxMessages == 2
MaxRequests == 1

\* requests carry no cap or a small one (schemas.py:64)
ApiMaxTokens == { NoTokens, SomeTokens(2) }

\* messages a request can carry (schemas.py:5-10); the route skips roles
\* other than user and assistant
ApiMessages ==
    { [role |-> "user", content |-> QueryGen],
      [role |-> "user", content |-> QueryProg],
      [role |-> "assistant", content |-> << "ok" >>],
      [role |-> "system", content |-> << "brief" >>] }

RequestMessages == UNION { [1..n -> ApiMessages] : n \in 1..MaxMessages }

\* schemas.py:60-65  ChatRequest (chat_id 0: None)
ChatRequests ==
    [chat_id : ChatIds \cup { 0 }, messages : RequestMessages,
     max_tokens : ApiMaxTokens]

\* chunk texts of the engine in this specification: one holds a line break
ApiChunks == Chunks \cup { << "\n", "end" >> }

\* what the store holds when the request arrives: nothing, or one exchange
\* an earlier session of the chat persisted
ApiLogs ==
    { << >>,
      << [role |-> "user", content |-> QueryProg, model_group |-> "None"],
         [role |-> "assistant", content |-> << "ok" >>,
          model_group |-> "programming"] >> }

HasUser(messages) == \E i \in 1..Len(messages) : messages[i].role = "user"

\* routes/chat.py:53-56  the content of the last user message of the request
CurrentQuery(messages) ==
    LET users == { i \in 1..Len(messages) : messages[i].role = "user" }
    IN  messages[CHOOSE i \in users : \A j \in users : i >= j].content

\* mutant: the last message of the request is appended as well
RequestHistoryWhole(messages) ==
    SelectSeq(messages, LAMBDA m : m.role \in { "user", "assistant" })

\* routes/chat.py:46-50  the entries appended to the session's history: every
\* user or assistant message of the request but the last one
RequestHistory(messages) ==
    SelectSeq(SubSeq(messages, 1, Len(messages) - 1),
              LAMBDA m : m.role \in { "user", "assistant" })

\* mutant: the text is put between the quotes as it is
JsonStringRaw(text) == << "\"" >> \o text \o << "\"" >>

\* json.dumps of a string: in quotes, a line break escaped
JsonString(text) ==
    << "\"" >>
    \o [i \in 1..Len(text) |-> IF text[i] = "\n" THEN "\\n" ELSE text[i]]
    \o << "\"" >>

\* utils.py:25-28, 32-35, 39-42  json.dumps({"type": type, key: value}) + "\n"
JsonLine(type, key, value) ==
    << "{", "type", type, key >> \o JsonString(value) \o << "}", "\n" >>

\* json.loads accepts the text: an object of the layout above, with no raw
\* line break inside the string
JsonWellFormed(s) ==
    /\ Len(s) >= 7
    /\ s[1] = "{" /\ s[2] = "type" /\ s[5] = "\"" /\ s[Len(s) - 1] = "\""
    /\ s[Len(s)] = "}"
    /\ \A i \in 6..(Len(s) - 2) : s[i] \notin { "\n", "\"" }

\* client.py:85  json.loads(buffer.strip()) of a well-formed line
JsonLoads(s) ==
    [type |-> s[3], key |-> s[4],
     value |-> [i \in 1..(Len(s) - 7) |->
                   IF s[i + 5] = "\\n" THEN "\n" ELSE s[i + 5]]]

\* the state of a client before it has read anything
NewClient == [pos |-> 0, items |-> << >>, raised |-> << >>]

\* the bytes of the response body sent so far
Body(t) == Concat(wire[t])

\* the wrapper of request[t] has not finished
Serving(t) == request[t] # << >> /\ request[t].open

\* the client of the last request has returned, raised or gone away
ClientDone(t) ==
    \/ client[t].raised # << >>
    \/ client[t].pos = Len(Body(t))
    \/ err[t] = "abandoned"

InitApi ==
    /\ InitModelManager
    /\ pc = [t \in 1..NClients |-> "new"]
    /\ grp = [t \in 1..NClients |-> "default"]
    /\ got = [t \in 1..NClients |-> 0]
    /\ err = [t \in 1..NClients |-> "none"]
    /\ ncalls = 0
    /\ sid = [t \in 1..NClients |-> 0]
    /\ chat_id = [t \in 1..NClients |-> 0]
    /\ model_group = [t \in 1..NClients |-> "None"]
    /\ conversation_history = [t \in 1..NClients |-> << >>]
    /\ classifyCalls = [t \in 1..NClients |-> 0]
    /\ adopted = [t \in 1..NClients |-> FALSE]
    /\ call = [t \in 1..NClients |-> IdleCall]
    /\ engineCall = [t \in 1..NClients |-> << >>]
    /\ delivered = [t \in 1..NClients |-> << >>]
    /\ pulled = [t \in 1..NClients |-> << >>]
    /\ nsessions = 0
    /\ db \in [ChatIds -> ApiLogs]
    /\ budgetIn = << >> /\ budgetOut = << >> /\ rendered = << >>
    /\ request = [t \in 1..NClients |-> << >>]
    /\ wire = [t \in 1..NClients |-> << >>]
    /\ client = [t \in 1..NClients |-> NewClient]
    /\ NoLoop

\* routes/chat.py:38-43  ChatSession(model_manager, db_manager, chat_id), and
\* routes/chat.py:46-50  the request's earlier messages appended to its history
RouteSession(t, req) ==
    LET c == req.chat_id
    IN  /\ nsessions' = nsessions + 1
        /\ sid' = [sid EXCEPT ![t] = nsessions + 1]
        /\ chat_id' = [chat_id EXCEPT ![t] = c]
        /\ conversation_history' = [conversation_history EXCEPT ![t] =
                (IF c # 0 THEN LoadedHistory(db[c]) ELSE << >>)
                \o RequestHistory(req.messages)]
        /\ model_group' = [model_group EXCEPT ![t] =
                IF c # 0 THEN LoadedGroup(db[c]) ELSE "None"]
        /\ adopted' = [adopted EXCEPT ![t] = c # 0 /\ LoadedGroup(db[c]) # "None"]
        /\ classifyCalls' = [classifyCalls EXCEPT ![t] = 0]
        /\ call' = [call EXCEPT ![t] = IdleCall]
        /\ engineCall' = [engineCall EXCEPT ![t] = << >>]
        /\ delivered' = [delivered EXCEPT ![t] = << >>]
        /\ pulled' = [pulled EXCEPT ![t] = << >>]
        /\ err' = [err EXCEPT ![t] = "none"]
        /\ got' = [got EXCEPT ![t] = 0]
        /\ pc' = [pc EXCEPT ![t] = "ready"]
        /\ wire' = [wire EXCEPT ![t] = << >>]

\* a client sends its next request when its last one is over
RouteEntered(t) ==
    /\ pc[t] \in { "new", "ready" }
    /\ nsessions < MaxRequests
    /\ request[t] # << >> => (~ request[t].open /\ ClientDone(t))

\* mutant: the user turn is not written by the route
RouteSavedNothing(log, query) == log

\* routes/chat.py:59-60  db_manager.save_message(chat_id, "user", current_query)
RouteSaved(log, query) == SavedMessage(log, "user", query, "None")

\* routes/chat.py:23-72  chat_stream: the session is constructed, the user
\* turn is saved if there is a chat id, and the streaming response is returned
ChatStreamRoute(t, req) ==
    /\ RouteEntered(t)
    /\ HasUser(req.messages)
    /\ RouteSession(t, req)
    /\ db' = IF req.chat_id # 0
             THEN [db EXCEPT ![req.chat_id] = RouteSaved(@, CurrentQuery(req.messages))]
             ELSE db
    /\ request' = [request EXCEPT ![t] =
            [chat_id |-> req.chat_id, messages |-> req.messages,
             max_tokens |-> req.max_tokens, query |-> CurrentQuery(req.messages),
             status |-> 200, open |-> TRUE, relayed |-> 0,
             user_row |-> IF req.chat_id # 0 THEN Len(db[req.chat_id]) + 1 ELSE 0]]
    /\ client' = [client EXCEPT ![t] = NewClient]
    /\ UNCHANGED << poolVars, grp, ncalls, llama_chat, budgetIn, budgetOut, rendered >>

\* routes/chat.py:53-56, 59-60, 73-75  the request has no user message, or
\* save_message raises: the route answers 500 and nothing is streamed;
\* client.py:71  raise_for_status raises in the client
ChatStreamRouteFails(t, req) ==
    /\ RouteEntered(t)
    /\ ~ HasUser(req.messages) \/ req.chat_id # 0
    /\ RouteSession(t, req)
    /\ request' = [request EXCEPT ![t] =
            [chat_id |-> req.chat_id, messages |-> req.messages,
             max_tokens |-> req.max_tokens,
             query |-> IF HasUser(req.messages)
                       THEN CurrentQuery(req.messages) ELSE << >>,
             status |-> 500, open |-> FALSE, relayed |-> 0, user_row |-> 0]]
    /\ client' = [client EXCEPT ![t] =
            [pos |-> 0, items |-> << >>, raised |-> << "HTTPError" >>]]
    /\ UNCHANGED << poolVars, grp, ncalls, db, llama_chat, budgetIn, budgetOut, rendered >>

\* utils.py:17-22  the body of the response starts: generate_response is
\* called with stream=True and runs up to the return of the generator
ResponseStarts(t) ==
    /\ Serving(t)
    /\ wire[t] = << >> /\ err[t] = "none"
    /\ GenPrepare(t, request[t].query, request[t].max_tokens, TRUE)

\* utils.py:25-28  the metadata chunk, sent once generate_response returned
ResponseMeta(t) ==
    /\ Serving(t)
    /\ pc[t] = "stream_ready" /\ wire[t] = << >>
    /\ wire' = [wire EXCEPT ![t] =
            << JsonLine("meta", "model_group", << model_group[t] >>) >>]
    /\ UNCHANGED << llama_chat, budgetIn, budgetOut, rendered, request, client, poolVars,
                    threadVars, sessVars >>

\* the wrapper is at its for loop and has sent every fragment it was given
AtPull(t) ==
    /\ Serving(t)
    /\ wire[t] # << >>
    /\ request[t].relayed = Len(delivered[t])

\* utils.py:31  the first pull of response_gen starts chunk_generator
ResponseFirstPull(t) == AtPull(t) /\ StreamInvoke(t)

\* utils.py:31  a pull: the engine yields a chunk
ResponsePull(t, chunk_text) == AtPull(t) /\ StreamChunk(t, chunk_text)

\* utils.py:32-36  the fragment the session yielded is sent as a content chunk
ResponseContent(t) ==
    /\ Serving(t)
    /\ pc[t] = "streaming"
    /\ request[t].relayed < Len(delivered[t])
    /\ wire' = [wire EXCEPT ![t] =
            Append(@, JsonLine("content", "text",
                               delivered[t][request[t].relayed + 1]))]
    /\ request' = [request EXCEPT ![t].relayed = @ + 1]
    /\ UNCHANGED << llama_chat, budgetIn, budgetOut, rendered, client, poolVars,
                    threadVars, sessVars >>

\* utils.py:31  a pull: the engine's sequence is exhausted
ResponsePullEnds(t) == AtPull(t) /\ StreamExhaust(t)

\* utils.py:31  a pull: the write of the assistant turn raises
ResponsePullSaveFails(t) == AtPull(t) /\ StreamSaveFail(t)

\* utils.py:31  a pull: the engine raises
ResponsePullRaises(t) == AtPull(t) /\ StreamRaise(t)

\* the client goes away while the wrapper is suspended at a yield or in its
\* sleep (utils.py:28, 35, 36): the wrapper is cancelled, response_gen dropped
ResponseDisconnect(t) == AtPull(t) /\ StreamAbandon(t)

\* mutant: the error chunk is followed by a closing metadata chunk
ResponseErrorThenMeta(t) ==
    /\ Serving(t)
    /\ pc[t] = "ready"
    /\ err[t] \notin { "none", "abandoned" }
    /\ wire' = [wire EXCEPT ![t] =
            @ \o << JsonLine("error", "detail", << err[t] >>),
                    JsonLine("meta", "model_group", << model_group[t] >>) >>]
    /\ request' = [request EXCEPT ![t].open = FALSE]
    /\ UNCHANGED << llama_chat, budgetIn, budgetOut, rendered, client, poolVars,
                    threadVars, sessVars >>

\* utils.py:38-42  an exception of generate_response or of the iteration is
\* sent as an error chunk, and the response ends
ResponseError(t) ==
    /\ Serving(t)
    /\ pc[t] = "ready"
    /\ err[t] \notin { "none", "abandoned" }
    /\ wire' = [wire EXCEPT ![t] =
            Append(@, JsonLine("error", "detail", << err[t] >>))]
    /\ request' = [request EXCEPT ![t].open = FALSE]
    /\ UNCHANGED << llama_chat, budgetIn, budgetOut, rendered, client, poolVars,
                    threadVars, sessVars >>

\* utils.py:31-36  the for loop ended (or the wrapper was cancelled): the
\* response ends with no further chunk
ResponseEnd(t) ==
    /\ Serving(t)
    /\ pc[t] = "ready"
    /\ wire[t] # << >>
    /\ err[t] \in { "none", "abandoned" }
    /\ request' = [request EXCEPT ![t].open = FALSE]
    /\ UNCHANGED << llama_chat, budgetIn, budgetOut, rendered, wire, client, poolVars,
                    threadVars, sessVars >>

\* client.py:73-96  the bytes from pos up to the next line break
NextBreak(body, pos) ==
    CHOOSE i \in (pos + 1)..Len(body) :
        body[i] = "\n" /\ \A j \in (pos + 1)..(i - 1) : body[j] # "\n"

\* client.py:87-92  a parsed chunk: text is yielded, metadata is yielded as
\* a dict, an error is raised as RuntimeError
ClientHandles(c, data) ==
    IF data.type = "content"
    THEN [c EXCEPT !.items = Append(@, [kind |-> "text", value |-> data.value])]
    ELSE IF data.type = "meta"
    THEN [c EXCEPT !.items = Append(@, [kind |-> "meta", value |-> data.value])]
    ELSE IF data.type = "error"
    THEN [c EXCEPT !.raised = << "RuntimeError", data.value >>]
    ELSE c

\* client.py:73-96  the client reads bytes up to a line break; a blank buffer
\* is skipped, a line that does not parse is dropped (93-95)
ClientReadLine(t) ==
    /\ request[t] # << >>
    /\ client[t].raised = << >>
    /\ err[t] # "abandoned"
    /\ \E i \in (client[t].pos + 1)..Len(Body(t)) : Body(t)[i] = "\n"
    /\ LET nl == NextBreak(Body(t), client[t].pos)
           buffer == SubSeq(Body(t), client[t].pos + 1, nl - 1)
           read == [client[t] EXCEPT !.pos = nl]
       IN  client' = [client EXCEPT ![t] =
               IF Strip(buffer) # << >> /\ JsonWellFormed(Strip(buffer))
               THEN ClientHandles(read, JsonLoads(Strip(buffer)))
               ELSE read]
    /\ UNCHANGED << llama_chat, budgetIn, budgetOut, rendered, request, wire, poolVars,
                    threadVars, sessVars >>

NextApi ==
    \/ \E t \in Threads, req \in ChatRequests : ChatStreamRoute(t, req)
    \/ \E t \in Threads, req \in ChatRequests : ChatStreamRouteFails(t, req)
    \/ \E t \in Threads : ResponseStarts(t)
    \/ \E t \in Threads : EnsureCheck(t)
    \/ \E t \in Threads : EnsureAcquire(t)
    \/ \E t \in Threads : EnsureDoubleCheck(t)
    \/ \E t \in Threads : LoadSucceed(t)
    \/ \E t \in Threads : EnsureRelease(t)
    \/ \E t \in Threads : LoadFail(t)
    \/ \E t \in Threads : GetModelReturn(t)
    \/ \E t \in Threads : GenPoolRaised(t)
    \/ \E t \in Threads : GenSetContext(t)
    \/ \E t \in Threads : GenSetContextFails(t)
    \/ \E t \in Threads : ResponseMeta(t)
    \/ \E t \in Threads : ResponseFirstPull(t)
    \/ \E t \in Threads, chunk_text \in ApiChunks : ResponsePull(t, chunk_text)
    \/ \E t \in Threads : ResponseContent(t)
    \/ \E t \in Threads : ResponsePullEnds(t)
    \/ \E t \in Threads : ResponsePullSaveFails(t)
    \/ \E t \in Threads : ResponsePullRaises(t)
    \/ \E t \in Threads : ResponseDisconnect(t)
    \/ \E t \in Threads : ResponseError(t)
    \/ \E t \in Threads : ResponseEnd(t)
    \/ \E t \in Threads : ClientReadLine(t)

SpecApi == InitApi /\ [][NextApi]_vars

(* ---------------------------------------------------------------------- *)
(* Claims about the budgeter (SpecBudget)                                  *)
(* ---------------------------------------------------------------------- *)
BudgetDone == budgetOut # << >>

\* The least multiple of granule that is >= n, found by search
LeastMultipleAtLeast(granule, n) ==
    LET span == (IF n >= 0 THEN n ELSE -n) + 1
        multiples == { k * granule : k \in (-span)..span }
    IN  CHOOSE m \in multiples :
            /\ m >= n
            /\ \A m2 \in multiples : m2 >= n => m <= m2

BudgetRequired(e) ==
    e + RequestedOutput(budgetIn.max_tokens, budgetIn.config)

\* C7: the returned context_size is min(context window, least multiple of
\* max_output_length >= estimate + output); it never exceeds the window, and
\* when the clamp does not apply it is a multiple of max_output_length, is
\* >= required and the output tokens are the requested ones.
C7_ContextSizeFormula ==
    BudgetDone =>
        \A i \in 1..2 :
            LET e == IF i = 1 THEN budgetIn.e1 ELSE budgetIn.e2
                cfg == budgetIn.config
                req == BudgetRequired(e)
                least == LeastMultipleAtLeast(cfg.max_output_length, req)
                r == budgetOut[i]
            IN  /\ r.context_size = Min(cfg.context_window, least)
                /\ r.context_size <= cfg.context_window
                /\ least <= cfg.context_window =>
                     /\ r.context_size % cfg.max_output_length = 0
                     /\ r.context_size >= req
                     /\ r.output_tokens = RequestedOutput(budgetIn.max_tokens, cfg)

\* C7 witness: one call rounded strictly up without clamping, the other clamped
C7_Witness ==
    /\ BudgetDone
    /\ budgetOut[1].context_size > BudgetRequired(budgetIn.e1)
    /\ budgetOut[1].context_size < budgetIn.config.context_window
    /\ budgetOut[2].context_size = budgetIn.config.context_window
    /\ budgetOut[2].context_size < BudgetRequired(budgetIn.e2)

\* C8: for a fixed config and requested output the returned context_size is
\* monotonic in the prompt estimate: e1 <= e2 implies ctx(e1) <= ctx(e2).
C8_ContextMonotonic ==
    (BudgetDone /\ budgetIn.e1 <= budgetIn.e2) =>
        budgetOut[1].context_size <= budgetOut[2].context_size

\* C8 witness: a strictly larger estimate gave a strictly larger context,
\* and the larger one is at the clamp
C8_Witness ==
    /\ BudgetDone
    /\ budgetIn.e1 < budgetIn.e2
    /\ budgetOut[1].context_size < budgetOut[2].context_size
    /\ budgetOut[2].context_size = budgetIn.config.context_window

C9_ShrinkCase(i) ==
    LET e == IF i = 1 THEN budgetIn.e1 ELSE budgetIn.e2
        r == budgetOut[i]
    IN  (r.context_size < BudgetRequired(e)) =>
            r.output_tokens = Max(0, r.context_size - e)

C9_Fits(i) ==
    LET e == IF i = 1 THEN budgetIn.e1 ELSE budgetIn.e2
        r == budgetOut[i]
    IN  e + r.output_tokens <= r.context_size \/ r.output_tokens = 0

C9_Scenario ==
    (budgetIn.config = ScenarioConfig /\ budgetIn.e1 = 250
        /\ budgetIn.max_tokens = SomeTokens(100)) =>
            budgetOut[1] = [context_size |-> 300, output_tokens |-> 50]

\* C9 as stated: whenever the clamped context is smaller than estimate +
\* output the returned output is max(0, context - estimate), and the result
\* ALWAYS has output_tokens >= 0 and fits the context (or is 0); the scenario
\* (100, 300), estimate 250, request 100 gives (300, 50).
C9_Original ==
    BudgetDone =>
        /\ \A i \in 1..2 :
              /\ C9_ShrinkCase(i)
              /\ budgetOut[i].output_tokens >= 0
              /\ C9_Fits(i)
        /\ C9_Scenario

\* C9 amended: as C9, but output_tokens >= 0 is claimed only when the
\* requested output is not negative (a negative max_tokens that fits the
\* context is returned unchanged).
C9_Amended ==
    BudgetDone =>
        /\ \A i \in 1..2 :
              /\ C9_ShrinkCase(i)
              /\ (RequestedOutput(budgetIn.max_tokens, budgetIn.config) >= 0
                    => budgetOut[i].output_tokens >= 0)
              /\ C9_Fits(i)
        /\ C9_Scenario

\* C9 witness: the scenario was computed and shrank the output to 50, and the
\* second call had a prompt larger than the window (output floored at 0)
C9_Witness ==
    /\ BudgetDone
    /\ budgetIn.config = ScenarioConfig
    /\ budgetIn.e1 = 250
    /\ budgetIn.max_tokens = SomeTokens(100)
    /\ budgetOut[1].output_tokens = 50
    /\ budgetIn.e2 > 300 /\ budgetOut[2].output_tokens = 0

(* ---------------------------------------------------------------------- *)
(* Claims about the pool (SpecPool)                                        *)
(* ---------------------------------------------------------------------- *)
InCriticalSection(t) == pc[t] \in { "locked", "loading", "release" }

\* C3: concurrent get_model calls for one unloaded group run the underlying
\* load once: per group at most one load call is in progress or has
\* succeeded (every other load call raised), no load call starts for a loaded
\* group, and every caller that returns holds the handle in the slot, so all
\* callers of a group hold the same handle.
C3_SingleLoadSameHandle ==
    /\ \A g \in Groups : loadCalls[g] - loadFails[g] <= 1
    /\ \A t \in Threads :
          pc[t] = "got_model" => got[t] # 0 /\ got[t] = models[grp[t]]
    /\ \A t, u \in Threads :
          (pc[t] = "got_model" /\ pc[u] = "got_model" /\ grp[t] = grp[u])
              => got[t] = got[u]

\* C3 witness: three concurrent callers of "programming", one load call: two
\* callers hold the handle while the third, which passed the unlocked check
\* before the load finished, holds the lock and finds the slot filled
C3_Witness ==
    \E t, u, w \in Threads :
        /\ t # u /\ t # w /\ u # w
        /\ grp[t] = "programming" /\ grp[u] = "programming" /\ grp[w] = "programming"
        /\ pc[t] = "got_model" /\ pc[u] = "got_model" /\ pc[w] = "locked"
        /\ loadCalls["programming"] = 1
        /\ got[t] = 1 /\ got[u] = 1

\* C4: loading is guarded per group: a caller waiting for a lock waits only
\* while another thread is inside the guarded section of the SAME group, and
\* a caller that is not waiting for a lock (in particular one whose group is
\* already loaded) can always take its next step.
C4_PerGroupGuard ==
    \A t \in Threads :
        /\ (pc[t] = "acquire" /\ ~ ENABLED EnsureAcquire(t)) =>
              \E u \in Threads \ { t } : grp[u] = grp[t] /\ InCriticalSection(u)
        /\ pc[t] \in { "ensure", "locked", "loading", "release", "return" } =>
              ENABLED GetModelStep(t)

\* C4 witness: two loads of different groups in progress at the same time
\* while a third caller waits for one of the two locks
C4_Witness ==
    \E t, u, w \in Threads :
        /\ pc[t] = "loading" /\ grp[t] = "default"
        /\ pc[u] = "loading" /\ grp[u] = "programming"
        /\ pc[w] = "acquire"

\* C5: a failed load raises RuntimeError to its caller, leaves the slot of the
\* group unloaded, releases the lock of the group and changes no other
\* group's slot, lock or handle; a later call that finds the slot empty under
\* the lock loads again, and a load that succeeds fills the slot.
C5_LoadFailureIsLocal ==
    [][ \A t \in Threads :
          /\ (pc[t] = "loading" /\ pc'[t] = "pool_raised") =>
                /\ err'[t] = "RuntimeError"
                /\ models' = models /\ models[grp[t]] = 0
                /\ n_ctx' = n_ctx
                /\ lockOwner'[grp[t]] = 0
                /\ \A g \in Groups \ { grp[t] } : lockOwner'[g] = lockOwner[g]
          /\ (pc[t] = "locked" /\ pc'[t] # "locked" /\ models[grp[t]] = 0) =>
                pc'[t] = "loading"
          /\ (pc[t] = "loading" /\ pc'[t] = "release") =>
                models'[grp[t]] # 0 ]_vars

\* C5 witness: a group whose load failed was loaded by a later call
C5_Witness ==
    /\ loadFails["programming"] >= 1
    /\ models["programming"] # 0
    /\ lockOwner["programming"] = 0

(* ---------------------------------------------------------------------- *)
(* Claims about sessions over the pool (Spec)                              *)
(* ---------------------------------------------------------------------- *)
EngineInvoked(t) == engineCall[t] # << >>

\* C1: within one session, once model_group holds a group it never changes
\* and never returns to unset, whatever the later queries, modes and
\* outcomes are; the pool call and the engine call of every later
\* generate_response use that group.
C1_GroupSticky ==
    [][ \A t \in Threads :
          /\ (model_group[t] # "None" /\ sid'[t] = sid[t]) =>
                model_group'[t] = model_group[t]
          /\ pc'[t] = "ensure" => grp'[t] = model_group'[t]
          /\ engineCall'[t] # << >> =>
                engineCall'[t][1].group = model_group'[t] ]_vars

\* C1 witness: a session classified by a programming query, with that exchange
\* in its history, runs the engine for a later general query on "programming"
C1_Witness ==
    \E t \in Threads :
        /\ ~ adopted[t]
        /\ model_group[t] = "programming"
        /\ Len(conversation_history[t]) >= 2
        /\ conversation_history[t][1].content = QueryProg
        /\ call[t].prompt = QueryGen
        /\ EngineInvoked(t)
        /\ engineCall[t][1].group = "programming"

C6_LoadedStaysLoaded ==
    [][ \A g \in Groups : models[g] # 0 => models'[g] = models[g] ]_vars

\* C6 witness: after one session abandoned its stream on "programming",
\* another gets the very handle that was loaded first
C6_Witness ==
    \E t, u \in Threads :
        /\ err[t] = "abandoned"
        /\ pc[u] = "got_model" /\ grp[u] = "programming"
        /\ got[u] = 1 /\ models["programming"] = 1
        /\ loadCalls["programming"] = 1

\* C10 as stated: in every generate_response call the output-token cap handed
\* to the engine is the output_tokens the budgeter returned for that call.
C10_EngineCapIsBudget ==
    \A t \in Threads :
        EngineInvoked(t) =>
            engineCall[t][1].max_tokens = EngineCapBudgeted(call[t])

\* The call of thread t is past the budgeter and has not ended
InCall(t) == call[t].formatted # << >>

\* chat.py:100, 122  the word estimate of the rendered prompt is larger than
\* the context window of the group
PromptOverflows(t) ==
    /\ InCall(t)
    /\ WordCount(call[t].formatted) > GroupConfig(grp[t]).context_window

\* The call is not rejected and the prompt not cut: the prompt of the call is
\* the full rendering of history and query, every step towards the engine is
\* enabled, and the engine, once invoked, has received that prompt
C11_StillInvoked(t) ==
    /\ call[t].formatted =
          _format_prompt(conversation_history[t], call[t].prompt,
                         GroupConfig(model_group[t]))
    /\ pc[t] = "got_model" => ENABLED GenSetContext(t)
    /\ pc[t] = "invoke" => ENABLED GenInvoke(t)
    /\ pc[t] = "stream_ready" => ENABLED StreamInvoke(t)
    /\ EngineInvoked(t) => engineCall[t][1].prompt = call[t].formatted

C11_ZeroBudget(t) ==
    /\ call[t].output_tokens = 0
    /\ call[t].context_size = GroupConfig(grp[t]).context_window

\* C11 as stated: when the estimated prompt tokens alone exceed the context
\* window of the group, the budgeter returns output_tokens = 0 and
\* context_size = the window, the request is not rejected, the prompt is not
\* truncated and the engine is still invoked with the full rendered prompt.
C11_Original ==
    \A t \in Threads :
        PromptOverflows(t) => C11_ZeroBudget(t) /\ C11_StillInvoked(t)

\* C11 amended: as C11, with output_tokens = 0 and context_size = the window
\* claimed only for a requested output that is not negative (with
\* max_tokens = -1 and an estimate of window + 1 nothing is shrunk and -1 is
\* returned).
C11_Amended ==
    \A t \in Threads :
        PromptOverflows(t) =>
            /\ RequestedOutput(call[t].max_tokens, GroupConfig(grp[t])) >= 0
                  => C11_ZeroBudget(t)
            /\ C11_StillInvoked(t)

\* C11 witness: the engine runs in both modes on a prompt larger than the
\* window with a zero output budget
C11_Witness ==
    \E t \in Threads :
        /\ PromptOverflows(t)
        /\ EngineInvoked(t)
        /\ call[t].output_tokens = 0
        /\ call[t].max_tokens = SomeTokens(2)
        /\ call[t].stream
        /\ engineCall[t][1].prompt = call[t].formatted

BeforeEngine(t) == pc[t] \in { "invoke", "stream_ready" }

\* The order of the steps of one call: the context-size step is taken by a
\* thread that holds the handle of its group and has not invoked the engine,
\* it leads to the engine step, and the engine is invoked only from there
C12_Order(t) ==
    /\ (pc[t] = "got_model" /\ pc'[t] # "got_model") =>
          /\ got[t] # 0 /\ got[t] = models[grp[t]]
          /\ ~ EngineInvoked(t)
          /\ BeforeEngine(t)'
    /\ (BeforeEngine(t)' /\ ~ BeforeEngine(t)) => pc[t] = "got_model"
    /\ (EngineInvoked(t)' /\ ~ EngineInvoked(t)) => BeforeEngine(t)

RenderDone == rendered # << >>

\* The index in the joined text at which fragment i starts
RECURSIVE FragmentStart(_, _)
FragmentStart(fragments, i) ==
    IF i = 1 THEN 1
    ELSE FragmentStart(fragments, i - 1) + Len(fragments[i - 1]) + 1

\* text is the fragments in order, with one "\n" between two neighbours and
\* nothing else
IsNewlineJoin(text, fragments) ==
    IF fragments = << >> THEN text = << >>
    ELSE LET n == Len(fragments)
             start(i) == FragmentStart(fragments, i)
         IN  /\ Len(text) = start(n) + Len(fragments[n]) - 1
             /\ \A i \in 1..n :
                   SubSeq(text, start(i), start(i) + Len(fragments[i]) - 1)
                       = fragments[i]
             /\ \A i \in 1..(n - 1) : text[start(i) + Len(fragments[i])] = "\n"

\* A turn wrapped in the template of a role
Wrapped(role, content, pf) ==
    IF role = "user" THEN pf.user_prefix \o content \o pf.user_suffix
    ELSE pf.assistant_prefix \o content \o pf.assistant_suffix

\* number of fragments before the history: the system fragment, if any
SystemFragments(config) == IF config.system_prompt # << >> THEN 1 ELSE 0

\* The fragments a prompt is made of, written out position by position
ExpectedFragments(h, user_input, config) ==
    LET N == Len(h)
        pf == config.prompt_format
        off == SystemFragments(config)
    IN  [k \in 1..(off + N + 2) |->
            IF k <= off
            THEN pf.system_prefix \o config.system_prompt \o pf.system_suffix
            ELSE IF k <= off + N
            THEN Wrapped(h[k - off].role, h[k - off].content, pf)
            ELSE IF k = off + N + 1
            THEN Wrapped("user", user_input, pf)
            ELSE pf.assistant_prefix]

\* C13: for every history of N user/assistant turns and every user input the
\* rendered prompt is the newline-join of: one system fragment iff a system
\* prompt is configured, then N history fragments in history order, then the
\* new user turn in the user template, then one bare assistant_prefix as the
\* last fragment; rendering leaves the history as it was.
C13_PromptLayout ==
    RenderDone =>
        LET h == rendered.history
            config == rendered.config
        IN  /\ config = GroupConfig(model_group[1])
            /\ Len(ExpectedFragments(h, rendered.user_input, config))
                  = SystemFragments(config) + Len(h) + 2
            /\ IsNewlineJoin(rendered.prompt,
                             ExpectedFragments(h, rendered.user_input, config))
            /\ conversation_history[1] = h

\* C13 witness: a prompt with a system fragment, three history turns and a
\* template with suffixes was rendered
C13_Witness ==
    /\ RenderDone
    /\ Len(rendered.history) = 3
    /\ rendered.config.system_prompt # << >>
    /\ rendered.config.prompt_format.assistant_suffix # << >>
    /\ Len(rendered.fragments) = 6
    /\ rendered.user_input = QueryGen

\* C14: each history turn is rendered by its own role and not its position:
\* a user turn gets the user prefix and suffix, an assistant turn the
\* assistant prefix and suffix, so two consecutive turns of one role are
\* rendered with the same template, in order.
C14_RoleNotPosition ==
    RenderDone =>
        LET h == rendered.history
            pf == rendered.config.prompt_format
            off == SystemFragments(rendered.config)
            f == rendered.fragments
        IN  /\ Len(f) = off + Len(h) + 2
            /\ IsNewlineJoin(rendered.prompt, f)
            /\ \A i \in 1..Len(h) :
                  /\ h[i].role = "user" =>
                        f[off + i] = pf.user_prefix \o h[i].content \o pf.user_suffix
                  /\ h[i].role = "assistant" =>
                        f[off + i] = pf.assistant_prefix \o h[i].content
                                        \o pf.assistant_suffix

\* C14 witness: a history user, user, assistant, assistant with four different
\* neighbours was rendered, so a user turn sat at an even position and an
\* assistant turn at an odd one
C14_Witness ==
    /\ RenderDone
    /\ Len(rendered.history) = 4
    /\ rendered.history[1].role = "user" /\ rendered.history[2].role = "user"
    /\ rendered.history[3].role = "assistant" /\ rendered.history[4].role = "assistant"
    /\ rendered.history[1].content # rendered.history[2].content
    /\ rendered.history[3].content # rendered.history[4].content

(* ---------------------------------------------------------------------- *)
(* Claims about the history of a session (Spec)                            *)
(* ---------------------------------------------------------------------- *)
IsPrefix(a, b) == Len(a) <= Len(b) /\ SubSeq(b, 1, Len(a)) = a

\* thread t returns normally from a batch generate_response in this step
BatchReturns(t) ==
    /\ pc[t] = "generating" /\ pc'[t] = "ready"
    /\ err'[t] = "none"

\* thread t enters generate_response in this step
CallStarts(t) == pc[t] = "ready" /\ pc'[t] = "ensure"

\* C15: a batch generate_response(query) that returns normally extends the
\* history by exactly two turns, {user: query} then {assistant: returned
\* text}, with or without a chat id; within a session the history only grows
\* at its end, an ephemeral session starts empty, and the prompt of every
\* call renders all turns made so far in order. So after k successful batch
\* calls on a fresh session the history has 2k turns and call k + 1 shows them.
C15_BatchAppendsTwo ==
    [][ \A t \in Threads :
          /\ BatchReturns(t) =>
                \E text \in Responses :
                    /\ conversation_history'[t] =
                          conversation_history[t]
                              \o << [role |-> "user", content |-> call[t].prompt],
                                    [role |-> "assistant", content |-> Strip(text)] >>
                    /\ chat_id[t] # 0 =>
                          db'[chat_id[t]][Len(db'[chat_id[t]])].content = Strip(text)
          /\ sid'[t] = sid[t] =>
                IsPrefix(conversation_history[t], conversation_history'[t])
          /\ (sid'[t] # sid[t] /\ chat_id'[t] = 0) => conversation_history'[t] = << >>
          /\ CallStarts(t) =>
                /\ conversation_history'[t] = conversation_history[t]
                /\ IsNewlineJoin(call'[t].formatted,
                                 ExpectedFragments(conversation_history[t],
                                                   call'[t].prompt,
                                                   GroupConfig(model_group'[t]))) ]_vars

\* C15 witness: an ephemeral session is in its second batch call, after one
\* that returned: the history is the first exchange and the engine has a
\* prompt of five fragments or more
C15_Witness ==
    \E t \in Threads :
        /\ chat_id[t] = 0 /\ sid[t] # 0
        /\ Len(conversation_history[t]) = 2
        /\ conversation_history[t][1].role = "user"
        /\ conversation_history[t][2] = [role |-> "assistant", content |-> << "ok" >>]
        /\ ~ call[t].stream
        /\ EngineInvoked(t)
        /\ call[t].prompt # conversation_history[t][1].content
        /\ IsNewlineJoin(engineCall[t][1].prompt,
                         ExpectedFragments(conversation_history[t], call[t].prompt,
                                           GroupConfig(model_group[t])))

\* the stream of thread t is consumed to exhaustion without error in this step
StreamCompletes(t) ==
    /\ pc[t] = "streaming" /\ pc'[t] = "ready"
    /\ err'[t] = "none"

\* C16 as stated: once a streaming call has been consumed to exhaustion
\* without error, the history of the session ends with {user: query},
\* {assistant: accumulated output}, for sessions with a chat id and for
\* ephemeral sessions alike; only the persistence write depends on a chat id.
C16_StreamExtendsHistory ==
    [][ \A t \in Threads :
          StreamCompletes(t) =>
              /\ conversation_history'[t] =
                    conversation_history[t]
                        \o << [role |-> "user", content |-> call[t].prompt],
                              [role |-> "assistant",
                               content |-> Strip(Concat(delivered[t]))] >>
              /\ chat_id[t] = 0 => db' = db ]_vars

InStreamingCall(t) == InCall(t) /\ call[t].stream

\* thread t takes a step of its call
StepOf(t) ==
    \/ pc'[t] # pc[t]
    \/ pulled'[t] # pulled[t]
    \/ engineCall'[t] # engineCall[t]

\* C17: in a streaming call, before the engine's sequence is exhausted
\* (fragments being delivered included) neither the history nor the store
\* receives the turn of the call; the append happens only in the step that
\* follows exhaustion, at most once per call (the call is over after it).
C17_NoCommitBeforeExhaustion ==
    [][ \A t \in Threads :
          InStreamingCall(t) =>
              /\ ~ StreamCompletes(t) =>
                    conversation_history'[t] = conversation_history[t]
              /\ (StepOf(t) /\ ~ StreamCompletes(t)) => db' = db
              /\ StreamCompletes(t) =>
                    /\ Len(conversation_history'[t]) <= Len(conversation_history[t]) + 2
                    /\ \A c \in ChatIds : Len(db'[c]) <= Len(db[c]) + 1
                    /\ ~ InStreamingCall(t)' ]_vars

\* C17 witness: a persisted session has delivered two fragments of its first
\* streaming call and the engine is not exhausted: history and store are empty
C17_Witness ==
    \E t \in Threads :
        /\ pc[t] = "streaming" /\ chat_id[t] # 0
        /\ Len(delivered[t]) = 2 /\ Len(pulled[t]) = 2
        /\ conversation_history[t] = << >>
        /\ db[chat_id[t]] = << >>

\* the non-empty chunk texts of a sequence of chunks, in order
NonEmptyChunks(chunks) == SelectSeq(chunks, LAMBDA c : c # << >>)

\* the engine raises in a streaming call of thread t in this step
StreamFails(t) ==
    /\ pc[t] = "streaming" /\ pc'[t] = "ready"
    /\ err'[t] = "GenerationError"

\* C18: if the engine raises after emitting k fragments of a streaming call,
\* the caller has received exactly those k fragments in order and then gets
\* the error, and the history of the session and the store are as they were
\* before the call (no partial turn is saved).
C18_StreamErrorCommitsNothing ==
    [][ \A t \in Threads :
          /\ StreamFails(t) =>
                /\ delivered[t] = NonEmptyChunks(pulled[t])
                /\ conversation_history'[t] = conversation_history[t]
                /\ db' = db
                /\ call[t].formatted =
                      _format_prompt(conversation_history'[t], call[t].prompt,
                                     GroupConfig(model_group[t]))
          /\ (InStreamingCall(t) /\ StepOf(t) /\ ~ StreamCompletes(t)) =>
                /\ db' = db
                /\ conversation_history'[t] = conversation_history[t] ]_vars

\* C18 witness: two fragments were delivered to the caller of a persisted
\* session, nothing is stored, and the engine raises at the next pull
C18_Witness ==
    \E t \in Threads :
        /\ pc[t] = "streaming" /\ chat_id[t] # 0
        /\ Len(pulled[t]) = 2 /\ delivered[t] = pulled[t]
        /\ conversation_history[t] = << >>
        /\ db[chat_id[t]] = << >>
        /\ ENABLED StreamRaise(t)

\* C19: in streaming mode the fragments delivered to the caller are the
\* engine's non-empty chunk texts, in the engine's order, each delivered once
\* and before the next chunk is pulled; a pull adds one chunk, inside a live
\* stream only; what is committed on completion (to the history, to the
\* store) is the concatenation of the delivered fragments, trimmed.
C19_DeliveredIsNonEmptyInOrder ==
    [][ \A t \in Threads :
          /\ delivered'[t] = NonEmptyChunks(pulled'[t])
          /\ (pulled'[t] # pulled[t] /\ pulled'[t] # << >>) =>
                /\ pc[t] = "streaming" /\ pc'[t] = "streaming"
                /\ Len(pulled'[t]) = Len(pulled[t]) + 1
                /\ IsPrefix(pulled[t], pulled'[t])
                /\ IsPrefix(delivered[t], delivered'[t])
                /\ Len(delivered'[t]) <= Len(delivered[t]) + 1
          /\ StreamCompletes(t) =>
                LET content == Strip(Concat(delivered[t]))
                    h == conversation_history'[t]
                IN  /\ h # conversation_history[t] =>
                          h[Len(h)] = [role |-> "assistant", content |-> content]
                    /\ db' # db =>
                          /\ chat_id[t] # 0
                          /\ db' = [db EXCEPT ![chat_id[t]] =
                                      Append(@, [role |-> "assistant",
                                                 content |-> content,
                                                 model_group |-> model_group[t]])]
                    /\ chat_id[t] # 0 => (db' # db /\ h # conversation_history[t]) ]_vars

\* C19 witness: a stream of " no" then "ok" was consumed to exhaustion by a
\* persisted session: history and store hold the trimmed concatenation
C19_Witness ==
    \E t \in Threads :
        /\ pc[t] = "ready" /\ chat_id[t] # 0 /\ err[t] = "none"
        /\ Len(conversation_history[t]) = 2
        /\ conversation_history[t][2] =
              [role |-> "assistant", content |-> << "no", "ok" >>]
        /\ Len(db[chat_id[t]]) = 1
        /\ db[chat_id[t]][1].content = << "no", "ok" >>

\* the consumer of the stream of thread t stops pulling in this step
StreamAbandoned(t) ==
    /\ pc[t] \in { "stream_ready", "streaming" } /\ pc'[t] = "ready"
    /\ err'[t] = "abandoned"

\* C20: when the consumer of a streaming response stops pulling before
\* exhaustion, nothing more is pulled from the engine, nothing is appended to
\* the history or the store, and the pool is as it was: the group is loaded
\* with the handle the call got, the session holds no lock, and a caller
\* that finds the group loaded returns its handle without taking the lock.
C20_AbandonLeavesPoolIntact ==
    [][ /\ \A t \in Threads :
              StreamAbandoned(t) =>
                  /\ conversation_history'[t] = conversation_history[t]
                  /\ db' = db
                  /\ poolVars' = poolVars
                  /\ got[t] # 0 /\ models'[grp[t]] = got[t]
                  /\ \A g \in Groups : lockOwner'[g] # t
                  /\ ~ InCall(t)'
        /\ \A u \in Threads :
              /\ (pc[u] = "ensure" /\ models[grp[u]] # 0 /\ pc'[u] # "ensure") =>
                    pc'[u] = "return" /\ lockOwner' = lockOwner
              /\ (pc[u] = "return" /\ pc'[u] # "return") =>
                    pc'[u] = "got_model" /\ got'[u] = models[grp[u]] ]_vars

\* C20 witness: a session abandoned its stream on "programming"; the next
\* caller of that group passed the unlocked check and is about to return,
\* the handle is the one loaded first and no lock is held
C20_Witness ==
    \E t, u \in Threads :
        /\ err[t] = "abandoned" /\ pc[t] = "ready"
        /\ model_group[t] = "programming"
        /\ conversation_history[t] = << >>
        /\ pc[u] = "return" /\ grp[u] = "programming"
        /\ models["programming"] = 1 /\ loadCalls["programming"] = 1
        /\ \A g \in Groups : lockOwner[g] = 0
        /\ ncalls = 2

(* ---------------------------------------------------------------------- *)
(* Claims about persistence (Spec)                                         *)
(* ---------------------------------------------------------------------- *)
\* thread t completes a generation in this step (either mode, no error)
GenerationCompletes(t) == BatchReturns(t) \/ StreamCompletes(t)

\* the row the session of thread t stores for content
AssistantRow(t, content) ==
    [role |-> "assistant", content |-> content, model_group |-> model_group[t]]

\* the contents a completing step of thread t can commit
CompletedContents(t) ==
    IF call[t].stream THEN { Strip(Concat(delivered[t])) }
    ELSE { Strip(text) : text \in Responses }

\* C21: the session controller writes only assistant turns to the store,
\* exactly one per completed generation, carrying (chat id, "assistant",
\* content, the model_group of the session), and only when the session has a
\* chat id; it never writes a user turn and an ephemeral session never writes.
C21_OnlyAssistantRows ==
    [][ /\ db' # db =>
              \E t \in Threads :
                  /\ GenerationCompletes(t)
                  /\ chat_id[t] # 0
                  /\ model_group[t] # "None"
                  /\ \E content \in CompletedContents(t) :
                        db' = [db EXCEPT ![chat_id[t]] =
                                  Append(@, AssistantRow(t, content))]
        /\ \A t \in Threads :
              (GenerationCompletes(t) /\ chat_id[t] # 0) =>
                  Len(db'[chat_id[t]]) = Len(db[chat_id[t]]) + 1
        /\ \A t \in Threads :
              (StepOf(t) /\ chat_id[t] = 0 /\ sid'[t] = sid[t]) => db' = db
        /\ \A c \in ChatIds : \A i \in 1..Len(db'[c]) : db'[c][i].role = "assistant" ]_vars

\* C21 witness: the store holds one assistant row of a persisted session,
\* and an ephemeral session has completed an exchange that is not stored
C21_Witness ==
    \E t \in Threads :
        /\ chat_id[t] = 0 /\ pc[t] = "ready"
        /\ Len(conversation_history[t]) = 2
        /\ \E c \in ChatIds :
              /\ Len(db[c]) = 1
              /\ db[c][1].role = "assistant"
              /\ db[c][1].model_group = "programming"

(* ---------------------------------------------------------------------- *)
(* Claims about a session built from the store (SpecLoad)                  *)
(* ---------------------------------------------------------------------- *)
\* the log of the round-trip scenario, with group g on the assistant turn
ScenarioLog(g) ==
    << [role |-> "user", content |-> << "hi" >>, model_group |-> "None"],
       [role |-> "assistant", content |-> << "hello" >>, model_group |-> g] >>

\* thread t owns a session of a stored chat and has made no call with it
FreshFromStore(t) == sid[t] # 0 /\ chat_id[t] # 0 /\ pc[t] = "ready"

\* thread t owns a session of a stored chat and is in its first call
FirstCallFromStore(t) == sid[t] # 0 /\ chat_id[t] # 0 /\ pc[t] = "ensure"

\* C22: a session constructed with a chat id has the stored turns as its
\* history, in stored order; for the log [user "hi", assistant "hello"
\* (group g)] it has model_group = g, and the prompt of its next call is the
\* rendering of user "hi", assistant "hello", each in the template of its
\* role, verbatim and in that order before the new user turn.
C22_RoundTrip ==
    \A t \in Threads :
        /\ (FreshFromStore(t) \/ FirstCallFromStore(t)) =>
              LET rows == db[chat_id[t]]
                  h == conversation_history[t]
              IN  /\ Len(h) = Len(rows)
                  /\ \A i \in 1..Len(rows) :
                        h[i] = [role |-> rows[i].role, content |-> rows[i].content]
        /\ \A g \in Groups :
              ((FreshFromStore(t) \/ FirstCallFromStore(t))
                    /\ db[chat_id[t]] = ScenarioLog(g)) =>
                  /\ model_group[t] = g
                  /\ FirstCallFromStore(t) =>
                        IsNewlineJoin(call[t].formatted,
                            ExpectedFragments(
                                << [role |-> "user", content |-> << "hi" >>],
                                   [role |-> "assistant", content |-> << "hello" >>] >>,
                                call[t].prompt, GroupConfig(g)))

\* C22 witness: the session of the scenario log with group "programming" has
\* rendered the prompt of a general query
C22_Witness ==
    \E t \in Threads :
        /\ FirstCallFromStore(t)
        /\ db[chat_id[t]] = ScenarioLog("programming")
        /\ model_group[t] = "programming"
        /\ call[t].prompt = QueryGen
        /\ Len(call[t].formatted) > Len(QueryGen) + 4

\* the positions of the assistant rows of a log that record a group
RowsWithGroup(rows) ==
    { i \in 1..Len(rows) : rows[i].role = "assistant" /\ rows[i].model_group # "None" }

\* C23: on construction with a chat id, if an assistant turn of the log
\* carries a group the session starts ACTIVE with the group of the most
\* recent such turn (and never classifies); otherwise (empty log, user turns
\* only, assistant turns without a group) it starts NEW and its first
\* generate_response classifies the query.
C23_AdoptOrClassify ==
    \A t \in Threads :
        (FreshFromStore(t) \/ FirstCallFromStore(t)) =>
            LET rows == db[chat_id[t]]
                G == RowsWithGroup(rows)
            IN  /\ G # { } =>
                      /\ \E i \in G :
                            /\ \A j \in G : j <= i
                            /\ model_group[t] = rows[i].model_group
                      /\ adopted[t]
                      /\ classifyCalls[t] = 0
                /\ G = { } =>
                      /\ ~ adopted[t]
                      /\ FreshFromStore(t) =>
                            model_group[t] = "None" /\ classifyCalls[t] = 0
                      /\ FirstCallFromStore(t) =>
                            /\ classifyCalls[t] = 1
                            /\ model_group[t] =
                                  IF is_programming_question(call[t].prompt)
                                  THEN "programming" ELSE "default"

\* C23 witness: the log holds assistant turns of "default", then of
\* "programming", then one without a group: the session is on "programming"
\* and renders a general query without classifying
C23_Witness ==
    \E t \in Threads :
        /\ FirstCallFromStore(t)
        /\ Len(db[chat_id[t]]) = 3
        /\ db[chat_id[t]][1].model_group = "default"
        /\ db[chat_id[t]][2].model_group = "programming"
        /\ db[chat_id[t]][3].role = "assistant"
        /\ db[chat_id[t]][3].model_group = "None"
        /\ model_group[t] = "programming"
        /\ call[t].prompt = QueryGen
        /\ classifyCalls[t] = 0

\* the write of the assistant turn fails in this step of thread t
StorageFails(t) ==
    /\ pc[t] \in { "generating", "streaming" } /\ pc'[t] = "ready"
    /\ err'[t] = "StorageError"

C25_UnknownGroupRejected ==
    [][ \A t \in Threads :
          /\ (pc[t] = "ensure" /\ grp[t] \notin Groups /\ pc'[t] # "ensure") =>
                /\ pc'[t] = "pool_raised"
                /\ err'[t] = "ValueError"
                /\ got'[t] = 0
                /\ poolVars' = poolVars
          /\ grp'[t] \notin Groups =>
                /\ pc'[t] \in { "ensure", "pool_raised" }
                /\ \A g \in Groups : lockOwner'[g] # t
          /\ ~ is_model_loaded(UnknownGroup)'
          /\ \A g \in Groups : is_model_loaded(g)' = (models'[g] # 0) ]_vars

\* C25 witness: a caller of the unknown group has its ValueError while
\* another caller is loading "programming" and "default" is loaded
C25_Witness ==
    \E t, u \in Threads :
        /\ pc[t] = "pool_raised" /\ grp[t] = UnknownGroup /\ err[t] = "ValueError"
        /\ pc[u] = "loading" /\ grp[u] = "programming"
        /\ is_model_loaded("default")
        /\ ~ is_model_loaded(UnknownGroup)

(* ---------------------------------------------------------------------- *)
(* Claims about the shared context size (Spec)                             *)
(* ---------------------------------------------------------------------- *)
\* thread t is past its n_ctx write and its call has not ended
PastContextWrite(t) ==
    pc[t] \in { "invoke", "stream_ready", "generating", "streaming" }

\* thread t executes the n_ctx write of its call in this step
WritesContext(t) == pc[t] = "got_model" /\ pc'[t] # "got_model"

C27_PreloadDefaultOnce ==
    [][ /\ ncalls = 0 =>
              /\ loadCalls = [g \in Groups |-> IF g = "default" THEN 1 ELSE 0]
              /\ \A g \in Groups \ { "default" } : models[g] = 0 /\ loadFails[g] = 0
              /\ \A g \in Groups : lockOwner[g] = 0
              /\ \/ models["default"] = 1 /\ loadFails["default"] = 0
                 \/ models["default"] = 0 /\ loadFails["default"] = 1
              /\ \A t \in Threads : pc[t] = "idle" /\ err[t] = "none"
        /\ \A t \in Threads :
              (grp[t] = "default" /\ pc[t] = "ensure" /\ models["default"] = 0
                    /\ pc'[t] # "ensure") => pc'[t] = "acquire"
        /\ loadCalls'["default"] # loadCalls["default"] =>
              \E t \in Threads :
                  /\ pc[t] = "locked" /\ grp[t] = "default"
                  /\ lockOwner["default"] = t
                  /\ models["default"] = 0
                  /\ loadCalls'["default"] = loadCalls["default"] + 1 ]_vars

\* C27 witness: the preload failed, and a later get_model("default") loaded
\* the group with the second load call and returns that handle
C27_Witness ==
    \E t \in Threads :
        /\ loadFails["default"] = 1 /\ loadCalls["default"] = 2
        /\ models["default"] = 2
        /\ pc[t] = "got_model" /\ grp[t] = "default" /\ got[t] = 2
        /\ \A g \in Groups : lockOwner[g] = 0

(* ---------------------------------------------------------------------- *)
(* Claims about the HTTP layer (SpecApi)                                   *)
(* ---------------------------------------------------------------------- *)
\* every line of the response is one JSON object followed by a line break
JsonLines(t) ==
    \A i \in 1..Len(wire[t]) :
        \A line \in { wire[t][i] } :
            /\ line[Len(line)] = "\n"
            /\ \A s \in { Strip(line) } : JsonWellFormed(s)

\* the chunks of the response, read back from its lines
SentChunks(t) ==
    [i \in 1..Len(wire[t]) |-> CHOOSE d \in { JsonLoads(Strip(wire[t][i])) } : TRUE]

\* the type of each chunk, and the texts of the content chunks, in order
TypesOf(chunks) == [i \in 1..Len(chunks) |-> chunks[i].type]
TextsOf(chunks) ==
    LET contents == SelectSeq(chunks, LAMBDA d : d.type = "content")
    IN  [i \in 1..Len(contents) |-> contents[i].value]

ChunkTypes(t) == TypesOf(SentChunks(t))
ContentTexts(t) == TextsOf(SentChunks(t))

\* at most one meta chunk, before every content chunk; at most one error
\* chunk, after every other chunk
ChunkOrder(chunks) ==
    /\ \A i \in 1..Len(chunks) : chunks[i].type \in { "meta", "content", "error" }
    /\ \A i, j \in 1..Len(chunks) :
          /\ chunks[i].type = "meta" /\ chunks[j].type = "meta" => i = j
          /\ chunks[i].type = "meta" /\ chunks[j].type = "content" => i < j
          /\ chunks[i].type = "error" /\ chunks[j].type = "error" => i = j
    /\ \A i \in 1..Len(chunks) : chunks[i].type = "error" => i = Len(chunks)

\* while the session's generator runs, the content chunks are the fragments
\* it has yielded, all but possibly the one just yielded; before that there
\* are none
ContentFollowsFragments(t, texts) ==
    /\ pc[t] = "streaming" =>
         /\ IsPrefix(texts, delivered[t])
         /\ Len(delivered[t]) <= Len(texts) + 1
    /\ pc[t] \notin { "streaming", "ready" } => texts = << >>

\* an error of generate_response itself (the load failed, the group is
\* unknown) is sent as the only chunk of the response
EarlyErrorAlone(t, chunks) ==
    err[t] \in { "RuntimeError", "ValueError" } =>
        \/ wire[t] = << >> /\ Serving(t)
        \/ /\ ~ request[t].open
           /\ chunks = << [type |-> "error", key |-> "detail",
                           value |-> << err[t] >>] >>

\* the layout of the response in one state
ResponseLayout(t) ==
    /\ JsonLines(t)
    /\ \A chunks \in { SentChunks(t) } :
          /\ ChunkOrder(chunks)
          /\ EarlyErrorAlone(t, chunks)
          /\ \A texts \in { TextsOf(chunks) } : ContentFollowsFragments(t, texts)

\* when the generator ends every fragment has been sent, and once it has
\* ended the response grows by at most one line, which is no content chunk
ContentComplete(t) ==
    /\ pc[t] = "streaming" /\ pc'[t] # "streaming" => ContentTexts(t) = delivered[t]
    /\ pc[t] = "ready" /\ wire[t] # << >> /\ wire'[t] # wire[t] =>
          \/ wire'[t] = << >>
          \/ /\ Len(wire'[t]) = Len(wire[t]) + 1
             /\ SubSeq(wire'[t], 1, Len(wire[t])) = wire[t]
             /\ wire'[t][Len(wire'[t])][3] # "content"

\* C28: the streaming response is a sequence of JSON lines with at most one
\* meta chunk, which precedes every content chunk; the content chunks are the
\* fragments the session yields, one chunk per fragment in the same order; at
\* most one error chunk, which is the last chunk; an error raised before
\* generation starts is the only chunk of its response
C28_ResponseLayout ==
    /\ [](\A t \in Threads : ResponseLayout(t))
    /\ [][\A t \in Threads : ContentComplete(t)]_vars

\* a response that ended with an error chunk after the metadata and two
\* content chunks, one of them with a line break in its text
C28_Witness ==
    \E t \in Threads :
        /\ request[t] # << >> /\ ~ request[t].open
        /\ ChunkTypes(t) = << "meta", "content", "content", "error" >>
        /\ ContentTexts(t) = << << "ok" >>, << "\n", "end" >> >>

\* the strings the client has yielded, in order
ClientTexts(t) ==
    LET strings == SelectSeq(client[t].items, LAMBDA item : item.kind = "text")
    IN  [i \in 1..Len(strings) |-> strings[i].value]

\* the client has read every byte the server has sent
ClientCaughtUp(t) == client[t].pos = Len(Body(t))

\* the request of t was answered with a streaming response
Streamed(t) == request[t] # << >> /\ request[t].status = 200

\* the strings are fragments of the session, unchanged and in order: while
\* the generator runs they are a prefix of what it has yielded, and all the
\* fragments sent once the client has caught up; after it ended they are the
\* fragments of the content chunks (all of them the session's, C28)
StringsAreFragments(t, texts) ==
    /\ pc[t] = "streaming" =>
          /\ IsPrefix(texts, delivered[t])
          /\ ClientCaughtUp(t) => texts = SubSeq(delivered[t], 1, request[t].relayed)
    /\ pc[t] # "streaming" =>
          /\ IsPrefix(texts, ContentTexts(t))
          /\ ClientCaughtUp(t) => texts = ContentTexts(t)

\* one metadata item at most, the group of the session, and it is the first
\* item whenever a string was yielded
MetadataFirst(t, texts) ==
    LET items == client[t].items
    IN  /\ \A i \in 1..Len(items) :
              items[i].kind = "meta" =>
                  i = 1 /\ items[i].value = << model_group[t] >>
        /\ texts # << >> => items[1].kind = "meta"
        /\ ClientCaughtUp(t) /\ wire[t] # << >> /\ ChunkTypes(t)[1] = "meta" =>
              Len(items) >= 1 /\ items[1].kind = "meta"

\* the client raises exactly when it reads an error chunk: it has then
\* yielded every fragment sent before it, and reads no further
ErrorRaisedLast(t, texts) ==
    /\ client[t].raised # << >> =>
          /\ client[t].raised = << "RuntimeError", << err[t] >> >>
          /\ ChunkTypes(t)[Len(wire[t])] = "error"
          /\ ClientCaughtUp(t)
          /\ texts = ContentTexts(t)
          /\ ~ ENABLED ClientReadLine(t)
    /\ ( /\ wire[t] # << >>
         /\ ChunkTypes(t)[Len(wire[t])] = "error"
         /\ ClientCaughtUp(t) ) => client[t].raised # << >>

\* C29: end to end, the strings LlamaChatClient.chat_stream yields are exactly
\* the fragments the session yielded, unchanged and in the same order, and are
\* preceded by one metadata item with the model group; when the server sends
\* an error chunk the client raises RuntimeError after it has yielded every
\* fragment that preceded the chunk, and yields nothing afterwards
C29_ClientRelaysFragments ==
    \A t \in Threads :
        Streamed(t) =>
            \A texts \in { ClientTexts(t) } :
                /\ StringsAreFragments(t, texts)
                /\ MetadataFirst(t, texts)
                /\ ErrorRaisedLast(t, texts)

\* the client raised RuntimeError after the metadata item and two strings,
\* one of them with a line break
C29_Witness ==
    \E t \in Threads :
        /\ Streamed(t)
        /\ client[t].raised = << "RuntimeError", << "GenerationError" >> >>
        /\ Len(client[t].items) = 3
        /\ client[t].items[1].kind = "meta"
        /\ ClientTexts(t) = << << "ok" >>, << "\n", "end" >> >>

\* the request of t came with a chat id and was answered with a stream
StreamedForChat(t) == Streamed(t) /\ request[t].chat_id # 0

\* the row the route wrote for the user turn of the request
UserRow(t) ==
    [role |-> "user", content |-> request[t].query, model_group |-> "None"]

\* the generation of the request failed, or its stream was abandoned
GenerationLost(t) ==
    err[t] \in { "RuntimeError", "GenerationError", "StorageError", "abandoned" }

\* no other client has sent a request for the chat of t's request
OnlyRequestOfChat(t) ==
    \A u \in Threads \ { t } :
        request[u] = << >> \/ request[u].chat_id # request[t].chat_id

\* the user turn of the request is in the store, where the route put it;
\* with no other request for the chat, the only row that can follow it is the
\* assistant turn of the request, and none follows when generation was lost
UserTurnStored(t) ==
    LET log == db[request[t].chat_id]
        k == request[t].user_row
    IN  /\ k >= 1 /\ Len(log) >= k
        /\ log[k] = UserRow(t)
        /\ OnlyRequestOfChat(t) =>
              /\ Len(log) <= k + 1
              /\ Len(log) = k + 1 =>
                    /\ log[k + 1].role = "assistant"
                    /\ log[k + 1].model_group = model_group[t]
                    /\ err[t] = "none" /\ pc[t] = "ready"
              /\ GenerationLost(t) => Len(log) = k

\* the step that ends the generation of the request appends the assistant
\* turn to the log, so after the user turn, if the generation completed, and
\* writes nothing if it failed or was abandoned; no step removes a row
AssistantTurnAfter(t) ==
    LET c == request[t].chat_id
    IN  /\ IsPrefix(db[c], db'[c])
        /\ pc[t] = "streaming" /\ pc'[t] = "ready" =>
              IF err'[t] = "none"
              THEN db'[c] = Append(db[c],
                        [role |-> "assistant",
                         content |-> Strip(Concat(delivered[t])),
                         model_group |-> model_group[t]])
              ELSE db' = db
        /\ pc[t] = "pool_raised" /\ pc'[t] = "ready" => db' = db

\* C30: for a /chat/stream request with a chat id the user turn is in the
\* store from the return of the route on, so before generation starts, and
\* stays there; the assistant turn of the request is appended after it, so the
\* user turn precedes it; when generation fails or the stream is abandoned no
\* assistant turn is written, and the user turn stays the last row of the log
\* unless another request writes to the chat
C30_UserTurnFirst ==
    /\ [](\A t \in Threads : StreamedForChat(t) => UserTurnStored(t))
    /\ [][\A t \in Threads : StreamedForChat(t) => AssistantTurnAfter(t)]_vars

\* the engine raised after a fragment was streamed: the user turn of the
\* request is the last row of a log that held an earlier exchange
C30_Witness ==
    \E t \in Threads :
        /\ StreamedForChat(t)
        /\ ~ request[t].open
        /\ err[t] = "GenerationError"
        /\ Len(wire[t]) = 3
        /\ Len(db[request[t].chat_id]) = 3
        /\ db[request[t].chat_id][3] = UserRow(t)

\* the user and assistant messages among the first n of a request, in order
RECURSIVE TurnsAmong(_, _)
TurnsAmong(messages, n) ==
    IF n = 0 THEN << >>
    ELSE TurnsAmong(messages, n - 1)
         \o (IF messages[n].role \in { "user", "assistant" }
             THEN << [role |-> messages[n].role, content |-> messages[n].content] >>
             ELSE << >>)

\* the turns the store held for the chat when the session was constructed:
\* the rows before the user row of the request
PersistedTurns(t) ==
    LET before == SubSeq(db[request[t].chat_id], 1, request[t].user_row - 1)
    IN  [i \in 1..Len(before) |->
            [role |-> before[i].role, content |-> before[i].content]]

\* the history C31 describes for the request of t
RouteHistory(t) ==
    PersistedTurns(t)
    \o TurnsAmong(request[t].messages, Len(request[t].messages) - 1)

\* how many fragments of the rendered prompt are the rendering of this turn
TimesRendered(t, turn) ==
    LET config == GroupConfig(model_group[t])
        fragments == PromptFragments(conversation_history[t], request[t].query, config)
    IN  Cardinality({ i \in 1..Len(fragments) :
                        fragments[i] = RenderEntry(turn, config.prompt_format) })

\* C31: for a /chat/stream request with a chat id, the history the session
\* renders from is the persisted turns of the chat followed by every user or
\* assistant message of the request but the last, in request order and with
\* no de-duplication: the prompt of the call is rendered from exactly that list
C31_HistoryIsStorePlusRequest ==
    \A t \in Threads :
        StreamedForChat(t) /\ pc[t] # "ready" =>
            \A h \in { RouteHistory(t) } :
                /\ conversation_history[t] = h
                /\ call[t].formatted =
                      _format_prompt(h, request[t].query, GroupConfig(model_group[t]))

\* the request resends the persisted user turn: it is in the history twice
\* and is rendered twice in the prompt of the call
C31_Witness ==
    \E t \in Threads :
        /\ StreamedForChat(t) /\ pc[t] = "streaming"
        /\ PersistedTurns(t) =
              << [role |-> "user", content |-> QueryProg],
                 [role |-> "assistant", content |-> << "ok" >>] >>
        /\ request[t].messages =
              << [role |-> "user", content |-> QueryProg],
                 [role |-> "user", content |-> QueryGen] >>
        /\ Len(conversation_history[t]) = 3
        /\ TimesRendered(t, [role |-> "user", content |-> QueryProg]) = 2

(* ---------------------------------------------------------------------- *)
(* More claims about the pool (SpecPool)                                   *)
(* ---------------------------------------------------------------------- *)
\* the load attempts ensure_model_loaded has started for a group: all but
\* the one of the constructor's preload
AttemptsOf(group) == loadCalls[group] - (IF group = "default" THEN 1 ELSE 0)

RECURSIVE SumAttempts(_)
SumAttempts(groups) ==
    IF groups = { } THEN 0
    ELSE LET g == CHOOSE x \in groups : TRUE
         IN  AttemptsOf(g) + SumAttempts(groups \ { g })

\* calls that are still before their second check and have attempted nothing
NotYetAttempting == { t \in Threads : pc[t] \in { "ensure", "acquire", "locked" } }

\* one load at a time per group, and one attempt per call at most
LoadsBounded ==
    /\ \A g \in Groups :
          Cardinality({ t \in Threads : pc[t] = "loading" /\ grp[t] = g }) <= 1
    /\ SumAttempts(Groups) + Cardinality(NotYetAttempting) <= ncalls
    /\ \A t \in Threads :
          pc[t] = "pool_raised" /\ grp[t] \in Groups => lockOwner[grp[t]] # t

\* an attempt is started by a caller that holds the lock and found the slot
\* empty; a failed attempt frees the lock and leaves the slot empty, so the
\* next holder attempts again; a filled slot stays filled and ends the attempts
LoadsInTurn ==
    /\ \A g \in Groups :
          /\ loadCalls'[g] # loadCalls[g] =>
                /\ loadCalls'[g] = loadCalls[g] + 1
                /\ models[g] = 0
                /\ \E t \in Threads :
                      /\ grp[t] = g /\ lockOwner[g] = t
                      /\ pc[t] = "locked" /\ pc'[t] = "loading"
          /\ models[g] # 0 => models'[g] = models[g] /\ loadCalls'[g] = loadCalls[g]
    /\ \A t \in Threads :
          /\ pc[t] = "loading" /\ pc'[t] = "pool_raised" =>
                /\ lockOwner'[grp[t]] = 0
                /\ models'[grp[t]] = 0
          /\ pc[t] = "locked" /\ pc'[t] # "locked" /\ models[grp[t]] = 0 =>
                /\ pc'[t] = "loading"
                /\ loadCalls'[grp[t]] = loadCalls[grp[t]] + 1

\* C32: at most one load of a group is in progress at any moment; a failed
\* load releases the lock and each caller that then gets the lock makes its
\* own attempt, so the attempts for a group can exceed one, but every attempt
\* belongs to a different ensure_model_loaded call and there is no attempt
\* once one has succeeded
C32_LoadAttempts ==
    /\ []LoadsBounded
    /\ [][LoadsInTurn]_vars

\* three callers each made an attempt for the same group: two failed, the
\* third is in progress
C32_Witness ==
    /\ AttemptsOf("programming") = 3
    /\ loadFails["programming"] = 2
    /\ \E t \in Threads : pc[t] = "loading" /\ grp[t] = "programming"
    /\ ncalls = 3

(* ---------------------------------------------------------------------- *)
(* More claims about the session (Spec)                                    *)
(* ---------------------------------------------------------------------- *)
\* the exceptions with which generate_response can end
CallFailures == { "RuntimeError", "GenerationError", "StorageError" }

\* generate_response of thread t ends with an exception in this step
CallFails(t) ==
    /\ pc[t] # "ready" /\ pc'[t] = "ready"
    /\ sid'[t] = sid[t]
    /\ err'[t] \in CallFailures

\* C33: the group is assigned before every step that can fail: when a call
\* fails after the selection (model load, generation, persistence) the history
\* is as it was when the call started and model_group stays assigned, so the
\* next call on the session does not classify and keeps the group, whatever
\* its query is
C33_GroupSurvivesFailure ==
    [][ \A t \in Threads :
          /\ InCall(t) /\ sid'[t] = sid[t] =>
                conversation_history'[t] = conversation_history[t]
                \/ (pc'[t] = "ready" /\ err'[t] = "none")
          /\ InCall(t) => model_group[t] # "None"
          /\ CallFails(t) =>
                /\ conversation_history'[t] = conversation_history[t]
                /\ model_group'[t] = model_group[t]
                /\ model_group'[t] # "None"
          /\ CallStarts(t) /\ err[t] \in CallFailures =>
                /\ model_group[t] # "None"
                /\ model_group'[t] = model_group[t]
                /\ classifyCalls'[t] = classifyCalls[t]
                /\ grp'[t] = model_group[t] ]_vars

\* the first call of a fresh session was classified "default" and failed in
\* the load; the session retries with a programming query: it has the same
\* empty history, has not classified again and asks for "default"
C33_Witness ==
    \E t \in Threads :
        /\ nsessions = 1 /\ ncalls = 2 /\ sid[t] = 1
        /\ ~ adopted[t]
        /\ loadFails["default"] = 2
        /\ pc[t] = "ensure"
        /\ call[t].prompt = QueryProg
        /\ model_group[t] = "default" /\ grp[t] = "default"
        /\ classifyCalls[t] = 1
        /\ conversation_history[t] = << >>

\* a streaming generate_response has returned its generator, which the caller
\* has not pulled yet
ReturnedUnpulled(t) == pc[t] = "stream_ready"

\* the caller drops the generator without ever pulling it
NeverPulled(t) == ReturnedUnpulled(t) /\ pc'[t] = "ready"

\* in streaming mode everything up to the write of the context size is done
\* when generate_response returns, and the engine starts at the first pull
EagerThenLazy(t) ==
    /\ ReturnedUnpulled(t)' /\ ~ ReturnedUnpulled(t) =>
          /\ pc[t] = "got_model"
          /\ call[t].stream
          /\ model_group[t] # "None" /\ grp[t] = model_group[t]
          /\ call[t].formatted =
                _format_prompt(conversation_history[t], call[t].prompt,
                               GroupConfig(model_group[t]))
          /\ got[t] # 0 /\ got[t] = models[grp[t]]
          /\ ~ EngineInvoked(t)'
    /\ call[t].stream /\ EngineInvoked(t)' /\ ~ EngineInvoked(t) =>
          ReturnedUnpulled(t) /\ pc'[t] = "streaming"
    /\ NeverPulled(t) =>
          /\ ~ EngineInvoked(t)
          /\ conversation_history'[t] = conversation_history[t]
          /\ db' = db
          /\ model_group'[t] = model_group[t] /\ model_group[t] # "None"
          /\ n_ctx' = n_ctx

HandleNotSized(t) == InCall(t) /\ n_ctx[grp[t]] # call[t].context_size

\* the step of thread t in which its write of the context size fails
WriteFails(t) ==
    /\ pc[t] = "got_model" /\ pc'[t] # "got_model"
    /\ n_ctx'[grp[t]] # call[t].context_size

\* C35: a failed write of the context size is swallowed and the call goes on:
\* the handle keeps the size it had, the engine is invoked with the rendered
\* prompt on that handle, and the completion of the call appends the turn to
\* the history and to the store exactly as a call whose handle was sized does
C35_WriteFailureSwallowed ==
    [][ \A t \in Threads :
          /\ WriteFails(t) =>
                /\ n_ctx' = n_ctx
                /\ err'[t] = "none"
                /\ pc'[t] = AfterSetContext(t)
                /\ call'[t] = call[t] /\ got'[t] = got[t]
          /\ HandleNotSized(t) /\ EngineInvoked(t)' /\ ~ EngineInvoked(t) =>
                /\ engineCall'[t][1].prompt = call[t].formatted
                /\ engineCall'[t][1].handle = got[t]
                /\ engineCall'[t][1].n_ctx = n_ctx[grp[t]]
          /\ HandleNotSized(t) /\ BatchReturns(t) =>
                \E content \in CompletedContents(t) :
                    /\ conversation_history'[t] =
                          conversation_history[t]
                          \o << [role |-> "user", content |-> call[t].prompt],
                                [role |-> "assistant", content |-> content] >>
                    /\ db' = IF chat_id[t] # 0
                             THEN [db EXCEPT ![chat_id[t]] =
                                     Append(@, AssistantRow(t, content))]
                             ELSE db
          /\ HandleNotSized(t) /\ StreamCompletes(t) /\ chat_id[t] # 0 =>
                \E content \in CompletedContents(t) :
                    /\ conversation_history'[t] =
                          conversation_history[t]
                          \o << [role |-> "user", content |-> call[t].prompt],
                                [role |-> "assistant", content |-> content] >>
                    /\ db' = [db EXCEPT ![chat_id[t]] =
                                Append(@, AssistantRow(t, content))] ]_vars

\* the only call so far could not write its size: the engine runs with the
\* rendered prompt on a handle that still has the size it was loaded with,
\* and the call can complete
C35_Witness ==
    \E t \in Threads :
        /\ ncalls = 1
        /\ pc[t] = "generating" /\ chat_id[t] # 0
        /\ HandleNotSized(t)
        /\ n_ctx[grp[t]] = _get_min_output_length
        /\ engineCall[t][1].prompt = call[t].formatted
        /\ engineCall[t][1].n_ctx = _get_min_output_length
        /\ \E text \in Responses : ENABLED GenBatchComplete(t, text)

\* the assistant rows of a stored log, by position
AssistantRows(rows) == { i \in 1..Len(rows) : rows[i].role = "assistant" }

\* the sessions of one chat do not overlap: once a later session of the chat
\* is constructed, an earlier one is in no call (it has served its request)
NonOverlapping ==
    \A t \in Threads, u \in Threads :
        /\ sid[t] # 0 /\ sid[u] # 0 /\ sid[t] < sid[u]
        /\ chat_id[t] # 0 /\ chat_id[t] = chat_id[u]
        => pc[t] = "ready"

\* every assistant row of every chat has the group of the chat's first one
OneGroupPerChat ==
    \A c \in ChatIds :
        \A i \in AssistantRows(db[c]), j \in AssistantRows(db[c]) :
            db[c][i].model_group = db[c][j].model_group

\* the session of thread t has every assistant turn stored for its chat in its
\* history: no other session has stored a turn since this one was rehydrated
Rehydrated(t) ==
    Cardinality(AssistantRows(db[chat_id[t]]))
        = Cardinality(AssistantRows(conversation_history[t]))

\* the step of thread t in which its session stores the turn of its call
Persists(t) ==
    /\ chat_id[t] # 0 /\ InCall(t) /\ pc'[t] = "ready"
    /\ db'[chat_id[t]] # db[chat_id[t]]

\* C36: when the sessions that serve one chat id do not overlap, each being
\* rehydrated from the store, every assistant turn persisted for the chat has
\* the model_group of the first assistant turn persisted for it, whatever the
\* queries of the later sessions are: the store starts with one group per
\* chat and keeps it at every turn persisted by a session that no other
\* session has overlapped
C36_OneGroupAcrossSessions ==
    [][ \A t \in Threads :
          OneGroupPerChat /\ Persists(t) /\ Rehydrated(t) /\ NonOverlapping
          => /\ OneGroupPerChat'
             /\ \A i \in AssistantRows(db'[chat_id[t]]) :
                   db'[chat_id[t]][i].model_group = model_group[t] ]_vars

\* a second session of the chat adopted "programming" from the store, its
\* query is one the classifier calls general, and its answer is about to be
\* stored after the first session's
C36_Witness ==
    \E t \in Threads :
        /\ NonOverlapping /\ OneGroupPerChat
        /\ sid[t] = 2 /\ chat_id[t] # 0 /\ adopted[t]
        /\ Rehydrated(t)
        /\ AssistantRows(db[chat_id[t]]) # { }
        /\ model_group[t] = "programming"
        /\ call[t].prompt = QueryGen /\ ~ is_programming_question(call[t].prompt)
        /\ \E text \in Responses : ENABLED GenBatchComplete(t, text)

(* ---------------------------------------------------------------------- *)
(* LlamaChat: the standalone console chat (SpecLoop)                       *)
(* ---------------------------------------------------------------------- *)
MaxInputs == 3         \* lines the user types in one run of the loop

\* llama_chat.py:85, 88  str.lower() on the words a user types
LowerWord(w) ==
    CASE w = "CLEAR" -> "clear"
      [] w = "EXIT" -> "exit"
      [] OTHER -> w

Lower(text) == [i \in DOMAIN text |-> LowerWord(text[i])]

\* the lines a user types: commands in either case, with or without blanks
\* around them, a blank line, and the two queries
LoopInputs ==
    { << "clear" >>, << " ", "CLEAR" >>, << "quit" >>, << "EXIT", "\n" >>,
      << " " >>, QueryProg, << " " >> \o QueryGen }

\* llama_chat.py:8-19  the object after construction, at the head of the loop
NewLlamaChat ==
    [current_model_group |-> "None", conversation_history |-> << >>,
     pc |-> "input", user_input |-> << >>, response_chunks |-> << >>,
     group |-> "None", error |-> FALSE, classified |-> 0, inputs |-> 0]

InitLoop ==
    /\ llama_chat = NewLlamaChat
    /\ budgetIn = << >> /\ budgetOut = << >> /\ rendered = << >>
    /\ NoRequests
    /\ InitModelManager
    /\ pc = << >> /\ grp = << >> /\ got = << >> /\ err = << >> /\ ncalls = 0
    /\ NoSessions

LoopUnchanged ==
    UNCHANGED << budgetIn, budgetOut, rendered, apiVars, poolVars, threadVars,
                 sessVars >>

\* llama_chat.py:82-83  user_input = input("\nYou: ").strip()
ReadInput(raw) ==
    /\ llama_chat # << >>
    /\ llama_chat.pc = "input"
    /\ llama_chat.inputs < MaxInputs

IsCommand(user_input) == Lower(user_input) \in { << "quit" >>, << "exit" >>, << "clear" >> }

\* llama_chat.py:85-87  quit or exit: the loop ends
LoopQuit(raw) ==
    /\ ReadInput(raw)
    /\ Lower(Strip(raw)) \in { << "quit" >>, << "exit" >> }
    /\ llama_chat' = [llama_chat EXCEPT !.pc = "quit", !.user_input = Strip(raw),
                                        !.error = FALSE, !.inputs = @ + 1]
    /\ LoopUnchanged

\* mutant: clear empties the history and keeps the group
LoopClearKeepsGroup(raw) ==
    /\ ReadInput(raw)
    /\ Lower(Strip(raw)) = << "clear" >>
    /\ llama_chat' = [llama_chat EXCEPT !.conversation_history = << >>,
                                        !.user_input = Strip(raw),
                                        !.error = FALSE, !.inputs = @ + 1]
    /\ LoopUnchanged

\* llama_chat.py:88-92  clear: history and model selection are reset
LoopClear(raw) ==
    /\ ReadInput(raw)
    /\ Lower(Strip(raw)) = << "clear" >>
    /\ llama_chat' = [llama_chat EXCEPT !.conversation_history = << >>,
                                        !.current_model_group = "None",
                                        !.user_input = Strip(raw),
                                        !.error = FALSE, !.inputs = @ + 1]
    /\ LoopUnchanged

\* llama_chat.py:93-94  an empty line: the loop continues
LoopBlank(raw) ==
    /\ ReadInput(raw)
    /\ Strip(raw) = << >>
    /\ llama_chat' = [llama_chat EXCEPT !.user_input = Strip(raw),
                                        !.error = FALSE, !.inputs = @ + 1]
    /\ LoopUnchanged

\* llama_chat.py:96-105, 54-58  a message: the group is routed if none is
\* current, and generate_response is entered with the current group
LoopRoute(raw) ==
    /\ ReadInput(raw)
    /\ Strip(raw) # << >> /\ ~ IsCommand(Strip(raw))
    /\ LET user_input == Strip(raw)
           routed == llama_chat.current_model_group = "None"
           chosen == IF ~ routed THEN llama_chat.current_model_group
                     ELSE IF is_programming_question(user_input)
                          THEN "programming" ELSE "default"
       IN  llama_chat' = [llama_chat EXCEPT
                 !.current_model_group = chosen,
                 !.classified = IF routed THEN @ + 1 ELSE @,
                 !.user_input = user_input, !.group = chosen,
                 !.response_chunks = << >>, !.pc = "generate",
                 !.error = FALSE, !.inputs = @ + 1]
    /\ LoopUnchanged

\* llama_chat.py:98-100, 110-111  the router raises: the error is printed and
\* the loop continues with no group chosen
LoopRouteFails(raw) ==
    /\ ReadInput(raw)
    /\ Strip(raw) # << >> /\ ~ IsCommand(Strip(raw))
    /\ llama_chat.current_model_group = "None"
    /\ llama_chat' = [llama_chat EXCEPT !.classified = @ + 1,
                                        !.user_input = Strip(raw),
                                        !.error = TRUE, !.inputs = @ + 1]
    /\ LoopUnchanged

\* llama_chat.py:63-72  the engine yields a chunk, which is printed and kept
LoopChunk(chunk_text) ==
    /\ llama_chat # << >>
    /\ llama_chat.pc = "generate"
    /\ Len(llama_chat.response_chunks) < MaxChunks
    /\ llama_chat' = [llama_chat EXCEPT !.response_chunks = Append(@, chunk_text)]
    /\ LoopUnchanged

\* llama_chat.py:74-75, 105-109  the stream ends: the stripped response is
\* returned and the exchange appended to the history
LoopRespond ==
    /\ llama_chat # << >>
    /\ llama_chat.pc = "generate"
    /\ llama_chat' = [llama_chat EXCEPT
            !.conversation_history = Append(@,
                [user |-> llama_chat.user_input,
                 assistant |-> Strip(Concat(llama_chat.response_chunks))]),
            !.response_chunks = << >>, !.pc = "input"]
    /\ LoopUnchanged

\* llama_chat.py:54-72, 110-111  generate_response raises, before or between
\* chunks: the error is printed and the loop continues
LoopGenerateFails ==
    /\ llama_chat # << >>
    /\ llama_chat.pc = "generate"
    /\ llama_chat' = [llama_chat EXCEPT !.response_chunks = << >>, !.pc = "input",
                                        !.error = TRUE]
    /\ LoopUnchanged

NextLoop ==
    \/ \E raw \in LoopInputs : LoopQuit(raw)
    \/ \E raw \in LoopInputs : LoopClear(raw)
    \/ \E raw \in LoopInputs : LoopBlank(raw)
    \/ \E raw \in LoopInputs : LoopRoute(raw)
    \/ \E raw \in LoopInputs : LoopRouteFails(raw)
    \/ \E chunk_text \in Chunks : LoopChunk(chunk_text)
    \/ LoopRespond
    \/ LoopGenerateFails

SpecLoop == InitLoop /\ [][NextLoop]_vars

(* ---------------------------------------------------------------------- *)
(* Claims about the console chat (SpecLoop)                                *)
(* ---------------------------------------------------------------------- *)
\* a line was read in this step
LineRead == llama_chat'.inputs = llama_chat.inputs + 1

\* the step reads a message and enters generate_response
MessageSent == LineRead /\ llama_chat'.pc = "generate"

\* the step reads the clear command
ClearTyped == LineRead /\ Lower(llama_chat'.user_input) = << "clear" >>

\* the step in which generate_response raises
GenerationFails == llama_chat.pc = "generate" /\ llama_chat'.error

Classified(user_input) ==
    IF is_programming_question(user_input) THEN "programming" ELSE "default"

\* C37: in the console loop the group is chosen by the classifier only when
\* none is current, later messages keep it and generate with it, clear resets
\* it together with the history so that the next message is classified again,
\* and a message whose generation fails adds nothing to the history and
\* leaves the chosen group in place
C37_LoopGroup ==
    [][ /\ llama_chat'.classified # llama_chat.classified =>
              /\ llama_chat.current_model_group = "None"
              /\ llama_chat'.classified = llama_chat.classified + 1
        /\ llama_chat'.current_model_group # llama_chat.current_model_group =>
              \/ /\ MessageSent
                 /\ llama_chat.current_model_group = "None"
                 /\ llama_chat'.current_model_group = Classified(llama_chat'.user_input)
              \/ ClearTyped
        /\ MessageSent =>
              /\ llama_chat'.current_model_group =
                    IF llama_chat.current_model_group = "None"
                    THEN Classified(llama_chat'.user_input)
                    ELSE llama_chat.current_model_group
              /\ llama_chat'.group = llama_chat'.current_model_group
              /\ llama_chat.current_model_group = "None" =>
                    llama_chat'.classified = llama_chat.classified + 1
        /\ ClearTyped =>
              /\ llama_chat'.current_model_group = "None"
              /\ llama_chat'.conversation_history = << >>
        /\ GenerationFails =>
              /\ llama_chat'.conversation_history = llama_chat.conversation_history
              /\ llama_chat'.current_model_group = llama_chat.current_model_group
              /\ llama_chat'.current_model_group = llama_chat.group
              /\ llama_chat'.pc = "input" ]_vars

\* a first message was classified, clear was typed, and the next message was
\* classified again, as general; its generation failed, which left the
\* history empty and the new group in place
C37_Witness ==
    /\ llama_chat # << >>
    /\ llama_chat.inputs = 3 /\ llama_chat.classified = 2
    /\ llama_chat.error /\ llama_chat.pc = "input"
    /\ llama_chat.user_input = QueryGen
    /\ llama_chat.conversation_history = << >>
    /\ llama_chat.current_model_group = "default"

====
